---- MODULE Spec2Model ----
(***************************************************************************)
(* Use cases of the task-management-system: the task use case over the     *)
(* MongoDB task repository, the user use case over the MongoDB user        *)
(* repository, and the auth use case (JWT issue, validation, refresh).     *)
(*                                                                         *)
(* ObjectIDs are represented by their canonical hex string; a string that  *)
(* is not 24 hex digits is a MalformedHex input.  Usernames, emails and    *)
(* passwords are sequences of characters (their length and their syntax    *)
(* are tested); other strings are atoms.  Errors are represented           *)
(* by the error value the Go code returns: the domain sentinels            *)
(* (ErrNotFound, ErrInvalidInput, ErrUnauthorized) by their variable name, *)
(* errors.New(...) values by their message.                                *)
(***************************************************************************)
EXTENDS Naturals, Integers, FiniteSets, Sequences, TLC

VARIABLES
    tasks,    \* the "tasks" collection: stored task id -> task document
    users,    \* the "users" collection: stored user id -> user document
    issued,   \* ids primitive.NewObjectID has handed out so far
    last,     \* the call that has just returned: operation, input, outcome
    procs,    \* concurrent requests in flight: per request, its position and local copy
    clock,    \* the clock (time.Now), in ticks of 1/TicksPerSecond second
    held,     \* the LoginOutput / RefreshTokenOutput values callers have received
    jwtExpiry \* authUseCase.jwtExpiry, in ticks

vars == <<tasks, users, issued, last, procs, clock, held, jwtExpiry>>

-----------------------------------------------------------------------------
(* Identifiers *)

NilObjectID == "000000000000000000000000"

MalformedHex == "not-a-hex-id"

\* ids a user document can get; "a3" is a well-formed id that no user
\* document has.
StoredUserIDs == {"a1", "a2"}

UserIDs == {"a1", "a2", "a3"}

TaskIDs == {"f1"}

Processes == {"p1", "p2"}

\* user id strings a caller can pass
UserIDInputs == UserIDs \cup {NilObjectID, MalformedHex}

\* task id strings a caller can pass
TaskIDInputs == TaskIDs \cup {MalformedHex}

\* primitive.NewObjectID: an id not handed out before, when the call gets as far
\* as generating one (an id is generated for at most Cardinality(TaskIDs) tasks)
NewObjectID(used, reached) == IF reached THEN TaskIDs \ used ELSE {NilObjectID}

\* primitive.ObjectIDFromHex: the id for a well-formed string, an error otherwise
ObjectIDFromHex(s) ==
    IF s = MalformedHex THEN [ok |-> FALSE, id |-> NilObjectID]
    ELSE [ok |-> TRUE, id |-> s]

-----------------------------------------------------------------------------
(* Domain *)

TaskStatusPending == "pending"
TaskStatusInProgress == "in_progress"
TaskStatusCompleted == "completed"

TaskStatuses == {TaskStatusPending, TaskStatusInProgress, TaskStatusCompleted}

ErrNotFound == "ErrNotFound"
ErrInvalidInput == "ErrInvalidInput"
ErrUnauthorized == "ErrUnauthorized"
NoError == "nil"

ErrPriorityRange == "priority must be between 1 and 5"
ErrInvalidTransition == "invalid status transition"
ErrTaskIDFormat == "invalid task ID format"
ErrCreatorIDFormat == "invalid creator ID format"
ErrUpdaterIDFormat == "invalid updater ID format"
ErrUserIDFormat == "invalid user ID format"
ErrAssigneeIDFormat == "invalid assignee ID format"
ErrAssignerIDFormat == "invalid assigner ID format"
ErrCreatorNotFound == "creator user not found"
ErrAssigneeNotFound == "assignee user not found"

ErrDuplicateKey == "ErrDuplicateKey"
ErrUsernameLength == "username must be at least 3 characters long"
ErrEmailFormat == "invalid email format"
ErrPasswordLength == "password must be at least 6 characters long"
ErrEmailRegistered == "email already registered"
ErrUsernameTaken == "username already taken"
ErrEmailInUse == "email already used by another user"
ErrInvalidCredentials == "invalid login credentials"

MinUsernameLen == 3
MinPasswordLen == 6

MinPriority == 1
MaxPriority == 5

\* time.Time{} (IsZero)
ZeroTime == "0001-01-01T00:00:00Z"

\* what a nil *domain.Task result is represented by
NoTask == [id |-> NilObjectID, title |-> "", description |-> "", status |-> "",
           priority |-> 0, dueDate |-> ZeroTime, assignedTo |-> NilObjectID,
           createdBy |-> NilObjectID, createdAt |-> 0, updatedAt |-> 0]

\* the empty string, for the strings that are sequences of characters
Empty == << >>

\* the prefix of a bcrypt hash (version and cost); the salt is left out: it
\* takes no part in whether a password verifies
BcryptPrefix == "$2a$10$"

\* what a nil *domain.User result is represented by
NoUser == [id |-> NilObjectID, username |-> Empty, email |-> Empty,
           password |-> Empty, firstName |-> "", lastName |-> ""]

\* bcrypt.GenerateFromPassword, as a string
hashPassword(password) == <<BcryptPrefix>> \o password

\* bcrypt.CompareHashAndPassword(hashedPassword, password) == nil
verifyPassword(hashedPassword, password) ==
    /\ Len(hashedPassword) >= 1
    /\ hashedPassword[1] = BcryptPrefix
    /\ Tail(hashedPassword) = password

Letters ==
    {"a", "b", "c", "d", "e", "f", "g", "h", "i", "j", "k", "l", "m",
     "n", "o", "p", "q", "r", "s", "t", "u", "v", "w", "x", "y", "z",
     "A", "B", "C", "D", "E", "F", "G", "H", "I", "J", "K", "L", "M",
     "N", "O", "P", "Q", "R", "S", "T", "U", "V", "W", "X", "Y", "Z"}

Digits == {"0", "1", "2", "3", "4", "5", "6", "7", "8", "9"}

\* [a-zA-Z0-9._%+\-]
EmailLocalChars == Letters \cup Digits \cup {".", "_", "%", "+", "-"}

\* [a-zA-Z0-9.\-]
EmailDomainChars == Letters \cup Digits \cup {".", "-"}

\* isValidEmail: ^[a-zA-Z0-9._%+\-]+@[a-zA-Z0-9.\-]+\.[a-zA-Z]{2,}$
\* at is the position of the "@", dot the position of the "." before the
\* top-level domain
isValidEmail(email) ==
    \E at \in 1..Len(email) : \E dot \in 1..Len(email) :
       /\ at >= 2
       /\ \A i \in 1..(at - 1) : email[i] \in EmailLocalChars
       /\ email[at] = "@"
       /\ dot >= at + 2
       /\ \A i \in (at + 1)..(dot - 1) : email[i] \in EmailDomainChars
       /\ email[dot] = "."
       /\ Len(email) >= dot + 2
       /\ \A i \in (dot + 1)..Len(email) : email[i] \in Letters

-----------------------------------------------------------------------------
(* Time *)

\* clock ticks in a second: the clock is finer than the second, the unit
\* of the times a JWT carries
TicksPerSecond == 2

\* how many ticks the clock is followed for
MaxTicks == 3

-----------------------------------------------------------------------------
(* Inputs *)

\* how far outside 1..5 the supplied priorities go
PrioritySlack == 1

Titles == {"", "a", "b"}
Descriptions == {"", "x"}
DueDates == {ZeroTime, "2026-01-01T00:00:00Z"}
\* "" is "not provided"; "archived" is a string that is no TaskStatus constant
\* (the REST request body's status reaches UpdateTask unchecked)
StatusInputs == {"", "archived"} \cup TaskStatuses
PriorityInputs == {0 - PrioritySlack, 0, MinPriority, MaxPriority, MaxPriority + PrioritySlack}

CreateTaskInputs ==
    [Title : Titles, Description : Descriptions, Priority : PriorityInputs,
     DueDate : DueDates, CreatedBy : UserIDInputs]

UpdateTaskInputs ==
    [ID : TaskIDInputs, Title : Titles, Description : Descriptions,
     Status : StatusInputs, Priority : PriorityInputs, DueDate : DueDates,
     UpdatedBy : UserIDInputs]

AssignTaskInputs ==
    [TaskID : TaskIDInputs, AssigneeID : UserIDInputs, AssignedBy : UserIDInputs]

DeleteTaskInputs == [id : TaskIDInputs, userID : UserIDInputs]

-----------------------------------------------------------------------------
(* Repositories *)

\* userRepository.FindByID finding a document for every id
UserFindByID_AlwaysFound(us, id) ==
    [err |-> NoError, user |-> IF id \in DOMAIN us THEN us[id] ELSE NoUser]

\* userRepository.FindByID
UserFindByID(us, id) ==
    IF id \in DOMAIN us
    THEN [err |-> NoError, user |-> us[id]]
    ELSE [err |-> ErrNotFound, user |-> NoUser]

\* taskRepository.FindByID
FindByID(store, id) ==
    IF id \in DOMAIN store
    THEN [err |-> NoError, task |-> store[id]]
    ELSE [err |-> ErrNotFound, task |-> NoTask]

\* taskRepository.Create at clock reading t: created and updated times are t,
\* the id is the new ObjectID, an empty status defaults to pending
RepoCreate(store, task, newID, t) ==
    LET doc == [task EXCEPT !.createdAt = t,
                            !.updatedAt = t,
                            !.id = IF task.id = NilObjectID THEN newID ELSE task.id,
                            !.status = IF task.status = "" THEN TaskStatusPending
                                       ELSE task.status]
    IN  [err |-> NoError, task |-> doc,
         store |-> [i \in DOMAIN store \cup {doc.id} |->
                       IF i = doc.id THEN doc ELSE store[i]]]

\* taskRepository.Update with created_by in the $set, taken from the field next to it
RepoUpdate_SetsCreatedBy(store, task, t) ==
    IF task.id \in DOMAIN store
    THEN [err |-> NoError,
          task |-> [task EXCEPT !.updatedAt = t],
          store |-> [store EXCEPT ![task.id] =
                        [@ EXCEPT !.title = task.title,
                                  !.description = task.description,
                                  !.status = task.status,
                                  !.priority = task.priority,
                                  !.dueDate = task.dueDate,
                                  !.assignedTo = task.assignedTo,
                                  !.createdBy = task.assignedTo,
                                  !.updatedAt = t]]]
    ELSE [err |-> ErrNotFound, task |-> [task EXCEPT !.updatedAt = t], store |-> store]

\* taskRepository.Update as an upsert: a task whose document is gone is
\* stored anew
RepoUpdate_Upsert(store, task, t) ==
    [err |-> NoError,
     task |-> [task EXCEPT !.updatedAt = t],
     store |-> [i \in DOMAIN store \cup {task.id} |-> [task EXCEPT !.updatedAt = t]]]

\* taskRepository.Update writing every field but the title
RepoUpdate_KeepsTitle(store, task, t) ==
    IF task.id \in DOMAIN store
    THEN [err |-> NoError,
          task |-> [task EXCEPT !.updatedAt = t],
          store |-> [store EXCEPT ![task.id] =
                        [@ EXCEPT !.description = task.description,
                                  !.status = task.status,
                                  !.priority = task.priority,
                                  !.dueDate = task.dueDate,
                                  !.assignedTo = task.assignedTo,
                                  !.updatedAt = t]]]
    ELSE [err |-> ErrNotFound, task |-> [task EXCEPT !.updatedAt = t], store |-> store]

\* taskRepository.Update at clock reading t: the task's updated time becomes t;
\* $set of title, description, status, priority, due_date, assigned_to,
\* updated_at on the document with the task's _id; created_by and created_at
\* are not written
RepoUpdate(store, task, t) ==
    IF task.id \in DOMAIN store
    THEN [err |-> NoError,
          task |-> [task EXCEPT !.updatedAt = t],
          store |-> [store EXCEPT ![task.id] =
                        [@ EXCEPT !.title = task.title,
                                  !.description = task.description,
                                  !.status = task.status,
                                  !.priority = task.priority,
                                  !.dueDate = task.dueDate,
                                  !.assignedTo = task.assignedTo,
                                  !.updatedAt = t]]]
    ELSE [err |-> ErrNotFound, task |-> [task EXCEPT !.updatedAt = t], store |-> store]

\* taskRepository.Delete
RepoDelete(store, id) ==
    IF id \in DOMAIN store
    THEN [err |-> NoError, store |-> [i \in DOMAIN store \ {id} |-> store[i]]]
    ELSE [err |-> ErrNotFound, store |-> store]

-----------------------------------------------------------------------------
(* Use case: pure parts *)

\* isValidStatusTransition that also lets a completed task go back to pending
isValidStatusTransition_Reopen(current, new) ==
    CASE current = TaskStatusPending ->
            new = TaskStatusInProgress \/ new = TaskStatusCompleted
      [] current = TaskStatusInProgress -> new = TaskStatusCompleted
      [] current = TaskStatusCompleted ->
            new = TaskStatusInProgress \/ new = TaskStatusPending
      [] OTHER -> FALSE

\* isValidStatusTransition(current, new)
isValidStatusTransition(current, new) ==
    CASE current = TaskStatusPending ->
            new = TaskStatusInProgress \/ new = TaskStatusCompleted
      [] current = TaskStatusInProgress -> new = TaskStatusCompleted
      [] current = TaskStatusCompleted -> new = TaskStatusInProgress
      [] OTHER -> FALSE

\* the priority test of CreateTask: input.Priority < 1 || input.Priority > 5 rejects
CreatePriorityValid(p) == ~(p < MinPriority \/ p > MaxPriority)

\* the priority test of UpdateTask without its upper limit
UpdatePriorityValid_NoUpper(p) == ~(p # 0 /\ p < MinPriority)

\* the priority test of UpdateTask: 0 means "not provided"
UpdatePriorityValid(p) == ~(p # 0 /\ (p < MinPriority \/ p > MaxPriority))

\* the task CreateTask builds, with the description left out
NewTask_NoDescription(input, creatorID) ==
    [id |-> NilObjectID, title |-> input.Title, description |-> "",
     status |-> TaskStatusPending, priority |-> input.Priority,
     dueDate |-> input.DueDate, assignedTo |-> NilObjectID, createdBy |-> creatorID,
     createdAt |-> 0, updatedAt |-> 0]

\* the task CreateTask builds from its input
NewTask(input, creatorID) ==
    [id |-> NilObjectID, title |-> input.Title, description |-> input.Description,
     status |-> TaskStatusPending, priority |-> input.Priority,
     dueDate |-> input.DueDate, assignedTo |-> NilObjectID, createdBy |-> creatorID,
     createdAt |-> 0, updatedAt |-> 0]

\* CreateTask up to the repository call: validation and the task it builds
CreateTaskPrepare(us, input) ==
    LET creator == ObjectIDFromHex(input.CreatedBy) IN
    IF input.Title = "" THEN [err |-> ErrInvalidInput, task |-> NoTask]
    ELSE IF ~CreatePriorityValid(input.Priority)
    THEN [err |-> ErrPriorityRange, task |-> NoTask]
    ELSE IF ~creator.ok THEN [err |-> ErrCreatorIDFormat, task |-> NoTask]
    ELSE IF UserFindByID(us, creator.id).err = ErrNotFound
    THEN [err |-> ErrCreatorNotFound, task |-> NoTask]
    ELSE [err |-> NoError, task |-> NewTask(input, creator.id)]

\* whether UpdateTask lets updaterID change the task
UpdateAuthorized(task, updaterID) ==
    task.createdBy = updaterID \/ task.assignedTo = updaterID

\* UpdateTask writing the supplied description into its copy even when it is empty
UpdateTaskPrepare_AlwaysDescription(task, input) ==
    LET updater == ObjectIDFromHex(input.UpdatedBy)
        t1 == IF input.Title # "" THEN [task EXCEPT !.title = input.Title] ELSE task
        t2 == [t1 EXCEPT !.description = input.Description]
        t3 == IF input.Status # "" THEN [t2 EXCEPT !.status = input.Status] ELSE t2
        t4 == IF input.Priority # 0 THEN [t3 EXCEPT !.priority = input.Priority] ELSE t3
        t5 == IF input.DueDate # ZeroTime THEN [t4 EXCEPT !.dueDate = input.DueDate] ELSE t4
    IN
    IF ~UpdatePriorityValid(input.Priority)
    THEN [err |-> ErrPriorityRange, task |-> NoTask]
    ELSE IF ~updater.ok THEN [err |-> ErrUpdaterIDFormat, task |-> NoTask]
    ELSE IF ~UpdateAuthorized(task, updater.id)
    THEN [err |-> ErrUnauthorized, task |-> NoTask]
    ELSE IF input.Status # "" /\ ~isValidStatusTransition(task.status, input.Status)
    THEN [err |-> ErrInvalidTransition, task |-> NoTask]
    ELSE [err |-> NoError, task |-> t5]

\* UpdateTask between FindByID and taskRepo.Update: the checks and the
\* changes to the local copy of the task
UpdateTaskPrepare(task, input) ==
    LET updater == ObjectIDFromHex(input.UpdatedBy)
        t1 == IF input.Title # "" THEN [task EXCEPT !.title = input.Title] ELSE task
        t2 == IF input.Description # ""
              THEN [t1 EXCEPT !.description = input.Description] ELSE t1
        t3 == IF input.Status # "" THEN [t2 EXCEPT !.status = input.Status] ELSE t2
        t4 == IF input.Priority # 0 THEN [t3 EXCEPT !.priority = input.Priority] ELSE t3
        t5 == IF input.DueDate # ZeroTime THEN [t4 EXCEPT !.dueDate = input.DueDate] ELSE t4
    IN
    IF ~UpdatePriorityValid(input.Priority)
    THEN [err |-> ErrPriorityRange, task |-> NoTask]
    ELSE IF ~updater.ok THEN [err |-> ErrUpdaterIDFormat, task |-> NoTask]
    ELSE IF ~UpdateAuthorized(task, updater.id)
    THEN [err |-> ErrUnauthorized, task |-> NoTask]
    ELSE IF input.Status # "" /\ ~isValidStatusTransition(task.status, input.Status)
    THEN [err |-> ErrInvalidTransition, task |-> NoTask]
    ELSE [err |-> NoError, task |-> t5]

\* DeleteTask letting the assignee delete as well
DeleteAuthorized_OrAssignee(task, userID) ==
    task.createdBy = userID \/ task.assignedTo = userID

\* whether DeleteTask lets userID delete the task
DeleteAuthorized(task, userID) == task.createdBy = userID

\* AssignTask moving every task it assigns to in progress
AssignStatus_Always(status) == TaskStatusInProgress

\* the status AssignTask gives the task it assigns
AssignStatus(status) ==
    IF status = TaskStatusPending THEN TaskStatusInProgress ELSE status

\* AssignTask without the lookup of the assignee
AssignTaskPrepare_NoLookup(us, task, assigneeID, assignerID) ==
    IF task.createdBy # assignerID THEN [err |-> ErrUnauthorized, task |-> NoTask]
    ELSE [err |-> NoError,
          task |-> [task EXCEPT !.assignedTo = assigneeID,
                                !.status = AssignStatus(task.status)]]

\* AssignTask between FindByID and taskRepo.Update
AssignTaskPrepare(us, task, assigneeID, assignerID) ==
    IF task.createdBy # assignerID THEN [err |-> ErrUnauthorized, task |-> NoTask]
    ELSE IF UserFindByID(us, assigneeID).err = ErrNotFound
    THEN [err |-> ErrAssigneeNotFound, task |-> NoTask]
    ELSE [err |-> NoError,
          task |-> [task EXCEPT !.assignedTo = assigneeID,
                                !.status = AssignStatus(task.status)]]

-----------------------------------------------------------------------------
(* Use case: whole calls on a store.  Each yields the error, the returned  *)
(* task, the task read by FindByID (pre) and the store after the call.     *)

Outcome(err, task, pre, store) ==
    [err |-> err, task |-> task, pre |-> pre, store |-> store]

CreateTaskCall(store, us, input, newID, t) ==
    LET p == CreateTaskPrepare(us, input)
        c == RepoCreate(store, p.task, newID, t)
    IN  IF p.err # NoError THEN Outcome(p.err, NoTask, NoTask, store)
        ELSE Outcome(NoError, c.task, NoTask, c.store)

GetTaskByIDCall(store, id) ==
    LET tid == ObjectIDFromHex(id)
        f == FindByID(store, tid.id)
    IN  IF ~tid.ok THEN Outcome(ErrTaskIDFormat, NoTask, NoTask, store)
        ELSE Outcome(f.err, f.task, f.task, store)

\* UpdateTask saving the fields it has set so far when a later check fails
UpdateTaskCall_SavesOnError(store, input, t) ==
    LET tid == ObjectIDFromHex(input.ID)
        f == FindByID(store, tid.id)
        p == UpdateTaskPrepare(f.task, input)
        u == RepoUpdate(store, p.task, t)
        partial == [f.task EXCEPT !.title = IF input.Title # "" THEN input.Title ELSE @]
    IN  IF ~tid.ok THEN Outcome(ErrTaskIDFormat, NoTask, NoTask, store)
        ELSE IF f.err # NoError THEN Outcome(f.err, NoTask, NoTask, store)
        ELSE IF p.err # NoError
        THEN Outcome(p.err, NoTask, f.task, RepoUpdate(store, partial, t).store)
        ELSE IF u.err # NoError THEN Outcome(u.err, NoTask, f.task, store)
        ELSE Outcome(NoError, u.task, f.task, u.store)

UpdateTaskCall(store, input, t) ==
    LET tid == ObjectIDFromHex(input.ID)
        f == FindByID(store, tid.id)
        p == UpdateTaskPrepare(f.task, input)
        u == RepoUpdate(store, p.task, t)
    IN  IF ~tid.ok THEN Outcome(ErrTaskIDFormat, NoTask, NoTask, store)
        ELSE IF f.err # NoError THEN Outcome(f.err, NoTask, NoTask, store)
        ELSE IF p.err # NoError THEN Outcome(p.err, NoTask, f.task, store)
        ELSE IF u.err # NoError THEN Outcome(u.err, NoTask, f.task, store)
        ELSE Outcome(NoError, u.task, f.task, u.store)

DeleteTaskCall(store, id, userID) ==
    LET tid == ObjectIDFromHex(id)
        uid == ObjectIDFromHex(userID)
        f == FindByID(store, tid.id)
        d == RepoDelete(store, tid.id)
    IN  IF ~tid.ok THEN Outcome(ErrTaskIDFormat, NoTask, NoTask, store)
        ELSE IF ~uid.ok THEN Outcome(ErrUserIDFormat, NoTask, NoTask, store)
        ELSE IF f.err # NoError THEN Outcome(f.err, NoTask, NoTask, store)
        ELSE IF ~DeleteAuthorized(f.task, uid.id)
        THEN Outcome(ErrUnauthorized, NoTask, f.task, store)
        ELSE Outcome(d.err, NoTask, f.task, d.store)

AssignTaskCall(store, us, input, t) ==
    LET tid == ObjectIDFromHex(input.TaskID)
        assignee == ObjectIDFromHex(input.AssigneeID)
        assigner == ObjectIDFromHex(input.AssignedBy)
        f == FindByID(store, tid.id)
        p == AssignTaskPrepare(us, f.task, assignee.id, assigner.id)
        u == RepoUpdate(store, p.task, t)
    IN  IF ~tid.ok THEN Outcome(ErrTaskIDFormat, NoTask, NoTask, store)
        ELSE IF ~assignee.ok THEN Outcome(ErrAssigneeIDFormat, NoTask, NoTask, store)
        ELSE IF ~assigner.ok THEN Outcome(ErrAssignerIDFormat, NoTask, NoTask, store)
        ELSE IF f.err # NoError THEN Outcome(f.err, NoTask, NoTask, store)
        ELSE IF p.err # NoError THEN Outcome(p.err, NoTask, f.task, store)
        ELSE IF u.err # NoError THEN Outcome(u.err, NoTask, f.task, store)
        ELSE Outcome(NoError, u.task, f.task, u.store)

-----------------------------------------------------------------------------
(* Users: inputs *)

Al == <<"a", "l">>
Alice == <<"a", "l", "i", "c", "e">>
Bob == <<"b", "o", "b">>
EmailA == <<"a", "@", "x", ".", "i", "o">>
EmailB == <<"b", "@", "x", ".", "i", "o">>
NotAnEmail == <<"a", "@", "x">>
ShortPassword == <<"1", "2", "3", "4", "5">>
Password1 == <<"s", "e", "c", "r", "e", "t">>
Password2 == <<"h", "u", "n", "t", "e", "r", "2">>

\* Al is too short; EmailB is a username that has the syntax of an email
Usernames == {Al, Alice, Bob, EmailB}
Emails == {NotAnEmail, EmailA, EmailB}
Passwords == {ShortPassword, Password1, Password2}
FirstNames == {"", "A"}
LastNames == {"", "L"}

RegisterUserInputs ==
    [Username : Usernames, Email : Emails, Password : Passwords,
     FirstName : FirstNames, LastName : LastNames]

\* Empty email and Empty password are "not provided"
UpdateUserInputs ==
    [ID : UserIDs \cup {MalformedHex}, Email : {Empty} \cup Emails,
     FirstName : FirstNames, LastName : LastNames, Password : {Empty} \cup Passwords]

DeleteUserInputs == UserIDs \cup {MalformedHex}

CredentialsInputs ==
    [Login : {Alice, Bob, EmailA, EmailB}, Password : Passwords]

\* the users collection the task use case and the auth use case run against:
\* the documents two successful registrations leave
RegisteredUsers ==
    [id \in StoredUserIDs |->
        IF id = "a1"
        THEN [id |-> "a1", username |-> Alice, email |-> EmailA,
              password |-> hashPassword(Password1), firstName |-> "A", lastName |-> "L"]
        ELSE [id |-> "a2", username |-> Bob, email |-> EmailB,
              password |-> hashPassword(Password2), firstName |-> "", lastName |-> ""]]

-----------------------------------------------------------------------------
(* User repository.  NewUserRepository creates a unique index on email and *)
(* a unique index on username; InsertOne and UpdateOne fail with a         *)
(* duplicate key error on a document that would break one of them.         *)

\* userRepository.FindByEmail
UserFindByEmail(us, email) ==
    IF \E id \in DOMAIN us : us[id].email = email
    THEN [err |-> NoError, user |-> us[CHOOSE id \in DOMAIN us : us[id].email = email]]
    ELSE [err |-> ErrNotFound, user |-> NoUser]

\* userRepository.FindByUsername
UserFindByUsername(us, username) ==
    IF \E id \in DOMAIN us : us[id].username = username
    THEN [err |-> NoError,
          user |-> us[CHOOSE id \in DOMAIN us : us[id].username = username]]
    ELSE [err |-> ErrNotFound, user |-> NoUser]

\* userRepository.Create up to InsertOne: the lookups by email and by username
UserRepoCreateCheck(us, user) ==
    IF UserFindByEmail(us, user.email).err = NoError THEN ErrDuplicateKey
    ELSE IF UserFindByUsername(us, user.username).err = NoError THEN ErrDuplicateKey
    ELSE NoError

\* collection.InsertOne on a collection without the unique indexes
UserInsertOne_NoIndex(us, user, newID) ==
    LET doc == [user EXCEPT !.id = IF user.id = NilObjectID THEN newID ELSE user.id]
    IN  [err |-> NoError, user |-> doc,
         store |-> [i \in DOMAIN us \cup {doc.id} |-> IF i = doc.id THEN doc ELSE us[i]]]

\* userRepository.Create from the new ObjectID on: collection.InsertOne under
\* the unique indexes, a duplicate key error becoming ErrDuplicateKey
UserInsertOne(us, user, newID) ==
    LET doc == [user EXCEPT !.id = IF user.id = NilObjectID THEN newID ELSE user.id]
    IN  IF \E id \in DOMAIN us :
              us[id].email = doc.email \/ us[id].username = doc.username \/ id = doc.id
        THEN [err |-> ErrDuplicateKey, user |-> doc, store |-> us]
        ELSE [err |-> NoError, user |-> doc,
              store |-> [i \in DOMAIN us \cup {doc.id} |->
                            IF i = doc.id THEN doc ELSE us[i]]]

\* userRepository.Create
UserRepoCreate(us, user, newID) ==
    IF UserRepoCreateCheck(us, user) # NoError
    THEN [err |-> ErrDuplicateKey, user |-> user, store |-> us]
    ELSE UserInsertOne(us, user, newID)

\* userRepository.Update: UpdateOne on the document with the user's _id, $set of
\* email, first_name, last_name and, when it is not empty, password
UserRepoUpdate(us, user) ==
    IF user.id \notin DOMAIN us THEN [err |-> ErrNotFound, store |-> us]
    ELSE IF \E id \in DOMAIN us \ {user.id} : us[id].email = user.email
    THEN [err |-> ErrDuplicateKey, store |-> us]
    ELSE [err |-> NoError,
          store |-> [us EXCEPT ![user.id] =
                        [@ EXCEPT !.email = user.email,
                                  !.firstName = user.firstName,
                                  !.lastName = user.lastName,
                                  !.password = IF user.password # Empty
                                               THEN user.password ELSE @]]]

\* userRepository.Delete
UserRepoDelete(us, id) ==
    IF id \in DOMAIN us
    THEN [err |-> NoError, store |-> [i \in DOMAIN us \ {id} |-> us[i]]]
    ELSE [err |-> ErrNotFound, store |-> us]

-----------------------------------------------------------------------------
(* User use case *)

\* validateUserInput
validateUserInput(input) ==
    IF Len(input.Username) < MinUsernameLen THEN ErrUsernameLength
    ELSE IF ~isValidEmail(input.Email) THEN ErrEmailFormat
    ELSE IF Len(input.Password) < MinPasswordLen THEN ErrPasswordLength
    ELSE NoError

\* the user RegisterUser builds from its input
NewUser(input) ==
    [id |-> NilObjectID, username |-> input.Username, email |-> input.Email,
     password |-> hashPassword(input.Password),
     firstName |-> input.FirstName, lastName |-> input.LastName]

\* RegisterUser up to userRepo.Create without its lookup by email
RegisterUserPrepare_NoEmailLookup(us, input) ==
    IF validateUserInput(input) # NoError
    THEN [err |-> validateUserInput(input), user |-> NoUser]
    ELSE IF UserFindByUsername(us, input.Username).err = NoError
    THEN [err |-> ErrUsernameTaken, user |-> NoUser]
    ELSE [err |-> NoError, user |-> NewUser(input)]

\* RegisterUser up to userRepo.Create: validation and the two lookups
RegisterUserPrepare(us, input) ==
    IF validateUserInput(input) # NoError
    THEN [err |-> validateUserInput(input), user |-> NoUser]
    ELSE IF UserFindByEmail(us, input.Email).err = NoError
    THEN [err |-> ErrEmailRegistered, user |-> NoUser]
    ELSE IF UserFindByUsername(us, input.Username).err = NoError
    THEN [err |-> ErrUsernameTaken, user |-> NoUser]
    ELSE [err |-> NoError, user |-> NewUser(input)]

UserOutcome(err, user, store) == [err |-> err, user |-> user, store |-> store]

\* RegisterUser
RegisterUserCall(us, input, newID) ==
    LET p == RegisterUserPrepare(us, input)
        c == UserRepoCreate(us, p.user, newID)
    IN  IF p.err # NoError THEN UserOutcome(p.err, NoUser, us)
        ELSE IF c.err # NoError THEN UserOutcome(c.err, NoUser, us)
        ELSE UserOutcome(NoError, c.user, c.store)

\* the password test of UpdateUser on a supplied password
UpdatePasswordValid(password) == ~(Len(password) < MinPasswordLen)

\* the password UpdateUser leaves in its copy of the user, were it to keep
\* the stored hash whatever is supplied
UpdatedPassword_Kept(user, password) == user.password

\* the password UpdateUser leaves in its copy of the user
UpdatedPassword(user, password) ==
    IF password # Empty THEN hashPassword(password) ELSE user.password

\* UpdateUser between FindByID and userRepo.Update: the checks and the
\* changes to the local copy of the user
UpdateUserPrepare(us, user, input) ==
    LET changesEmail == input.Email # Empty /\ input.Email # user.email
        existing == UserFindByEmail(us, input.Email)
        u1 == IF changesEmail THEN [user EXCEPT !.email = input.Email] ELSE user
        u2 == IF input.FirstName # "" THEN [u1 EXCEPT !.firstName = input.FirstName] ELSE u1
        u3 == IF input.LastName # "" THEN [u2 EXCEPT !.lastName = input.LastName] ELSE u2
        u4 == [u3 EXCEPT !.password = UpdatedPassword(user, input.Password)]
    IN
    IF changesEmail /\ ~isValidEmail(input.Email)
    THEN [err |-> ErrEmailFormat, user |-> NoUser]
    ELSE IF changesEmail /\ existing.err = NoError /\ existing.user.id # user.id
    THEN [err |-> ErrEmailInUse, user |-> NoUser]
    ELSE IF input.Password # Empty /\ ~UpdatePasswordValid(input.Password)
    THEN [err |-> ErrPasswordLength, user |-> NoUser]
    ELSE [err |-> NoError, user |-> u4]

\* UpdateUser
UpdateUserCall(us, input) ==
    LET uid == ObjectIDFromHex(input.ID)
        f == UserFindByID(us, uid.id)
        p == UpdateUserPrepare(us, f.user, input)
        u == UserRepoUpdate(us, p.user)
    IN  IF ~uid.ok THEN UserOutcome(ErrUserIDFormat, NoUser, us)
        ELSE IF f.err # NoError THEN UserOutcome(f.err, NoUser, us)
        ELSE IF p.err # NoError THEN UserOutcome(p.err, NoUser, us)
        ELSE IF u.err # NoError THEN UserOutcome(u.err, NoUser, us)
        ELSE UserOutcome(NoError, p.user, u.store)

\* DeleteUser
DeleteUserCall(us, id) ==
    LET uid == ObjectIDFromHex(id)
        d == UserRepoDelete(us, uid.id)
    IN  IF ~uid.ok THEN UserOutcome(ErrUserIDFormat, NoUser, us)
        ELSE UserOutcome(d.err, NoUser, d.store)

\* the lookup of ValidateCredentials and Login: by email when the login has
\* the syntax of an email, by username otherwise
FindByLogin(us, login) ==
    IF isValidEmail(login) THEN UserFindByEmail(us, login)
    ELSE UserFindByUsername(us, login)

\* what ValidateCredentials makes of the error of its lookup, were it to pass it on
LookupError_Passed(err) == err

\* what ValidateCredentials and Login make of the error of their lookup
LookupError(err) == IF err = ErrNotFound THEN ErrInvalidCredentials ELSE err

\* ValidateCredentials
ValidateCredentialsCall(us, login, password) ==
    LET f == FindByLogin(us, login) IN
    IF f.err # NoError THEN UserOutcome(LookupError(f.err), NoUser, us)
    ELSE IF ~verifyPassword(f.user.password, password)
    THEN UserOutcome(ErrInvalidCredentials, NoUser, us)
    ELSE UserOutcome(NoError, f.user, us)

-----------------------------------------------------------------------------
(* State machine: one call at a time *)

Idle == [op |-> "none"]

NoProcs == [p \in Processes |-> [pc |-> "idle"]]

Init ==
    /\ tasks = << >>
    /\ users = RegisteredUsers
    /\ issued = {}
    /\ last = Idle
    /\ procs = NoProcs
    /\ clock = TicksPerSecond
    /\ held = {}
    /\ jwtExpiry = TicksPerSecond

\* the record of a call that has returned
Returned(op, input, o, before) ==
    [op |-> op, input |-> input, err |-> o.err, task |-> o.task, pre |-> o.pre,
     before |-> before]

\* CreateTask called with one of the given inputs
CreateTaskWith(inputs) ==
    /\ last = Idle
    /\ \E input \in inputs :
          \E newID \in NewObjectID(issued, CreateTaskPrepare(users, input).err = NoError) :
             LET o == CreateTaskCall(tasks, users, input, newID, clock) IN
             /\ tasks' = o.store
             /\ issued' = IF o.err = NoError THEN issued \cup {newID} ELSE issued
             /\ last' = Returned("CreateTask", input, o, tasks)
    /\ UNCHANGED <<clock, held, jwtExpiry, users, procs>>

CreateTask == CreateTaskWith(CreateTaskInputs)

GetTaskByID ==
    /\ last = Idle
    /\ \E id \in TaskIDInputs :
          LET o == GetTaskByIDCall(tasks, id) IN
          /\ tasks' = o.store
          /\ last' = Returned("GetTaskByID", [id |-> id], o, tasks)
    /\ UNCHANGED <<clock, held, jwtExpiry, users, issued, procs>>

\* UpdateTask called with one of the given inputs
UpdateTaskWith(inputs) ==
    /\ last = Idle
    /\ \E input \in inputs :
          LET o == UpdateTaskCall(tasks, input, clock) IN
          /\ tasks' = o.store
          /\ last' = Returned("UpdateTask", input, o, tasks)
    /\ UNCHANGED <<clock, held, jwtExpiry, users, issued, procs>>

UpdateTask == UpdateTaskWith(UpdateTaskInputs)

DeleteTask ==
    /\ last = Idle
    /\ \E input \in DeleteTaskInputs :
          LET o == DeleteTaskCall(tasks, input.id, input.userID) IN
          /\ tasks' = o.store
          /\ last' = Returned("DeleteTask", input, o, tasks)
    /\ UNCHANGED <<clock, held, jwtExpiry, users, issued, procs>>

\* AssignTask called with one of the given inputs
AssignTaskWith(inputs) ==
    /\ last = Idle
    /\ \E input \in inputs :
          LET o == AssignTaskCall(tasks, users, input, clock) IN
          /\ tasks' = o.store
          /\ last' = Returned("AssignTask", input, o, tasks)
    /\ UNCHANGED <<clock, held, jwtExpiry, users, issued, procs>>

AssignTask == AssignTaskWith(AssignTaskInputs)

\* the caller takes the result; the next call can start
Return ==
    /\ last # Idle
    /\ last' = Idle
    /\ UNCHANGED <<clock, held, jwtExpiry, tasks, users, issued, procs>>

Next ==
    \/ CreateTask
    \/ GetTaskByID
    \/ UpdateTask
    \/ DeleteTask
    \/ AssignTask
    \/ Return

Spec == Init /\ [][Next]_vars

-----------------------------------------------------------------------------
(* State machine: one call at a time, while the clock advances.  The calls *)
(* of Spec all read the same time; here time passes between the calls, so  *)
(* the times the repository stamps on a task differ.                       *)

ClockCreateTaskInputs ==
    [Title : {"a"}, Description : Descriptions, Priority : {MinPriority},
     DueDate : DueDates, CreatedBy : {"a1"}]

ClockUpdateTaskInputs ==
    [ID : TaskIDs, Title : {"", "b"}, Description : Descriptions,
     Status : {"", TaskStatusInProgress, TaskStatusCompleted},
     Priority : {0, MaxPriority}, DueDate : DueDates, UpdatedBy : StoredUserIDs]

ClockAssignTaskInputs == [TaskID : TaskIDs, AssigneeID : {"a2"}, AssignedBy : {"a1"}]

\* time passes
Tick ==
    /\ clock < TicksPerSecond + MaxTicks
    /\ clock' = clock + 1
    /\ UNCHANGED <<tasks, users, issued, last, procs, held, jwtExpiry>>

ClockCreateTask == CreateTaskWith(ClockCreateTaskInputs)

ClockUpdateTask == UpdateTaskWith(ClockUpdateTaskInputs)

ClockAssignTask == AssignTaskWith(ClockAssignTaskInputs)

NextClock ==
    \/ ClockCreateTask
    \/ ClockUpdateTask
    \/ ClockAssignTask
    \/ Return
    \/ Tick

SpecClock == Init /\ [][NextClock]_vars

-----------------------------------------------------------------------------
(* State machine: concurrent requests.  Each request is served by its own  *)
(* goroutine; nothing is shared but the collections.  A call takes one     *)
(* step for every call it makes on a repository: CreateTask looks its      *)
(* creator up and then inserts; UpdateTask and DeleteTask read the task    *)
(* and then write; AssignTask reads the task, looks the assignee up and    *)
(* then writes.  Each works on its local copy of what it read, and         *)
(* requests of other goroutines, the deletion of a user among them, can    *)
(* run between its steps.                                                  *)

ConcCreateTaskInputs ==
    [Title : {"a"}, Description : {""}, Priority : {MinPriority},
     DueDate : {ZeroTime}, CreatedBy : StoredUserIDs]

ConcUpdateTaskInputs ==
    [ID : TaskIDs, Title : {"", "b"}, Description : {""}, Status : StatusInputs,
     Priority : {0, MaxPriority}, DueDate : {ZeroTime}, UpdatedBy : {"a1", "a2"}]

ConcAssignTaskInputs == [TaskID : TaskIDs, AssigneeID : {"a2"}, AssignedBy : StoredUserIDs]

ConcDeleteTaskInputs == [id : TaskIDs, userID : {"a1"}]

\* how many CreateTask calls can be under way: one for every ObjectID that
\* can still be handed out
CreatesUnderWay == Cardinality({p \in Processes : procs[p].pc = "create"})

\* CreateTask up to its taskRepo.Create: validation and userRepo.FindByID of
\* the creator; a call that fails returns here
ConcCreateTaskLookup(p) ==
    /\ procs[p].pc = "idle"
    /\ CreatesUnderWay < Cardinality(TaskIDs \ issued)
    /\ \E input \in ConcCreateTaskInputs :
          LET c == CreateTaskPrepare(users, input) IN
          /\ c.err = NoError
          /\ procs' = [procs EXCEPT ![p] = [pc |-> "create", task |-> c.task,
                                            input |-> input]]
    /\ UNCHANGED <<clock, held, jwtExpiry, tasks, users, issued, last>>

\* CreateTask: taskRepo.Create(task), one insert, and return; `last` keeps
\* the call that created the task
ConcCreateTaskInsert(p) ==
    /\ procs[p].pc = "create"
    /\ \E newID \in NewObjectID(issued, TRUE) :
          LET c == RepoCreate(tasks, procs[p].task, newID, clock) IN
          /\ tasks' = c.store
          /\ issued' = issued \cup {newID}
          /\ last' = Returned("CreateTask", procs[p].input,
                              Outcome(c.err, c.task, NoTask, c.store), tasks)
    /\ procs' = [procs EXCEPT ![p] = [pc |-> "idle"]]
    /\ UNCHANGED <<clock, held, jwtExpiry, users>>

\* UpdateTask up to its taskRepo.Update: a call that fails returns here
UpdateTaskRead(p) ==
    /\ procs[p].pc = "idle"
    /\ \E input \in ConcUpdateTaskInputs :
          LET f == FindByID(tasks, ObjectIDFromHex(input.ID).id)
              u == UpdateTaskPrepare(f.task, input)
          IN  /\ f.err = NoError
              /\ u.err = NoError
              /\ procs' = [procs EXCEPT ![p] = [pc |-> "update", task |-> u.task]]
    /\ UNCHANGED <<clock, held, jwtExpiry, tasks, users, issued, last>>

\* UpdateTask: taskRepo.Update(task) and return
UpdateTaskWrite(p) ==
    /\ procs[p].pc = "update"
    /\ tasks' = RepoUpdate(tasks, procs[p].task, clock).store
    /\ procs' = [procs EXCEPT ![p] = [pc |-> "idle"]]
    /\ UNCHANGED <<clock, held, jwtExpiry, users, issued, last>>

\* AssignTask up to its userRepo.FindByID: the task is read and the assigner
\* compared with its creator; a call that fails returns here
AssignTaskRead(p) ==
    /\ procs[p].pc = "idle"
    /\ \E input \in ConcAssignTaskInputs :
          LET f == FindByID(tasks, ObjectIDFromHex(input.TaskID).id) IN
          /\ f.err = NoError
          /\ f.task.createdBy = ObjectIDFromHex(input.AssignedBy).id
          /\ procs' = [procs EXCEPT ![p] = [pc |-> "assignee", task |-> f.task,
                                            input |-> input]]
    /\ UNCHANGED <<clock, held, jwtExpiry, tasks, users, issued, last>>

\* AssignTask from userRepo.FindByID of the assignee up to its
\* taskRepo.Update: the assignee is looked up in the users as they are now
\* and the copy of the task read before is changed; a call that fails
\* returns here
AssignTaskLookup(p) ==
    /\ procs[p].pc = "assignee"
    /\ LET a == AssignTaskPrepare(users, procs[p].task,
                                  ObjectIDFromHex(procs[p].input.AssigneeID).id,
                                  ObjectIDFromHex(procs[p].input.AssignedBy).id)
       IN  procs' = [procs EXCEPT ![p] = IF a.err = NoError
                                         THEN [pc |-> "assign", task |-> a.task]
                                         ELSE [pc |-> "idle"]]
    /\ UNCHANGED <<clock, held, jwtExpiry, tasks, users, issued, last>>

\* AssignTask: taskRepo.Update(task) and return
AssignTaskWrite(p) ==
    /\ procs[p].pc = "assign"
    /\ tasks' = RepoUpdate(tasks, procs[p].task, clock).store
    /\ procs' = [procs EXCEPT ![p] = [pc |-> "idle"]]
    /\ UNCHANGED <<clock, held, jwtExpiry, users, issued, last>>

\* DeleteTask up to its taskRepo.Delete
DeleteTaskRead(p) ==
    /\ procs[p].pc = "idle"
    /\ \E input \in ConcDeleteTaskInputs :
          LET f == FindByID(tasks, ObjectIDFromHex(input.id).id) IN
          /\ f.err = NoError
          /\ DeleteAuthorized(f.task, ObjectIDFromHex(input.userID).id)
          /\ procs' = [procs EXCEPT ![p] = [pc |-> "delete", task |-> f.task]]
    /\ UNCHANGED <<clock, held, jwtExpiry, tasks, users, issued, last>>

\* DeleteTask: taskRepo.Delete(taskID) and return
DeleteTaskWrite(p) ==
    /\ procs[p].pc = "delete"
    /\ tasks' = RepoDelete(tasks, procs[p].task.id).store
    /\ procs' = [procs EXCEPT ![p] = [pc |-> "idle"]]
    /\ UNCHANGED <<clock, held, jwtExpiry, users, issued, last>>

\* DeleteUser of a stored user, one DeleteOne, by a request of its own
ConcDeleteUser ==
    /\ \E id \in StoredUserIDs :
          LET o == DeleteUserCall(users, id) IN
          /\ o.err = NoError
          /\ users' = o.store
    /\ UNCHANGED <<clock, held, jwtExpiry, tasks, issued, last, procs>>

NextConc ==
    \/ \E p \in Processes : ConcCreateTaskLookup(p)
    \/ \E p \in Processes : ConcCreateTaskInsert(p)
    \/ \E p \in Processes : UpdateTaskRead(p)
    \/ \E p \in Processes : UpdateTaskWrite(p)
    \/ \E p \in Processes : AssignTaskRead(p)
    \/ \E p \in Processes : AssignTaskLookup(p)
    \/ \E p \in Processes : AssignTaskWrite(p)
    \/ \E p \in Processes : DeleteTaskRead(p)
    \/ \E p \in Processes : DeleteTaskWrite(p)
    \/ ConcDeleteUser

SpecConc == Init /\ [][NextConc]_vars

-----------------------------------------------------------------------------
(* State machine of the user use case: one call at a time, on a users      *)
(* collection that starts empty.                                           *)

\* primitive.NewObjectID in userRepository.Create: ObjectIDs are handed out in
\* increasing order, to at most Cardinality(StoredUserIDs) users
NewUserObjectID(used, reached) ==
    IF ~reached THEN {NilObjectID}
    ELSE IF "a1" \notin used THEN {"a1"}
    ELSE StoredUserIDs \ used

InitUser ==
    /\ tasks = << >>
    /\ users = << >>
    /\ issued = {}
    /\ last = Idle
    /\ procs = NoProcs
    /\ clock = TicksPerSecond
    /\ held = {}
    /\ jwtExpiry = TicksPerSecond

\* the record of a call of the user use case that has returned
UserReturned(op, input, o, before) ==
    [op |-> op, input |-> input, err |-> o.err, user |-> o.user, before |-> before]

RegisterUser ==
    /\ last = Idle
    /\ \E input \in RegisterUserInputs :
          \E newID \in NewUserObjectID(issued, RegisterUserPrepare(users, input).err = NoError) :
             LET o == RegisterUserCall(users, input, newID) IN
             /\ users' = o.store
             /\ issued' = IF o.err = NoError THEN issued \cup {newID} ELSE issued
             /\ last' = UserReturned("RegisterUser", input, o, users)
    /\ UNCHANGED <<tasks, procs, clock, held, jwtExpiry>>

UpdateUser ==
    /\ last = Idle
    /\ \E input \in UpdateUserInputs :
          LET o == UpdateUserCall(users, input) IN
          /\ users' = o.store
          /\ last' = UserReturned("UpdateUser", input, o, users)
    /\ UNCHANGED <<tasks, issued, procs, clock, held, jwtExpiry>>

DeleteUser ==
    /\ last = Idle
    /\ \E id \in DeleteUserInputs :
          LET o == DeleteUserCall(users, id) IN
          /\ users' = o.store
          /\ last' = UserReturned("DeleteUser", [ID |-> id], o, users)
    /\ UNCHANGED <<tasks, issued, procs, clock, held, jwtExpiry>>

ValidateCredentials ==
    /\ last = Idle
    /\ \E input \in CredentialsInputs :
          LET o == ValidateCredentialsCall(users, input.Login, input.Password) IN
          /\ users' = o.store
          /\ last' = UserReturned("ValidateCredentials", input, o, users)
    /\ UNCHANGED <<tasks, issued, procs, clock, held, jwtExpiry>>

NextUser ==
    \/ RegisterUser
    \/ UpdateUser
    \/ DeleteUser
    \/ ValidateCredentials
    \/ Return

SpecUser == InitUser /\ [][NextUser]_vars

-----------------------------------------------------------------------------
(* State machine of the user use case: concurrent requests.  A call takes  *)
(* one step for every call it makes on the collection: RegisterUser looks  *)
(* the email up, then the username (use case), looks both up again         *)
(* (userRepository.Create) and then inserts; UpdateUser reads the user,    *)
(* looks a new email up and then writes.  Requests of other goroutines can *)
(* run between these steps.  `last` keeps the call that returned last.     *)

ConcRegisterUserInputs ==
    [Username : {Alice, Bob}, Email : {EmailA, EmailB}, Password : {Password1},
     FirstName : {""}, LastName : {""}]

ConcUpdateUserInputs ==
    [ID : StoredUserIDs, Email : {EmailA, EmailB}, FirstName : {""},
     LastName : {""}, Password : {Empty}]

\* a call of the user use case that returns an error before it has a user
\* to store
UserFailed(op, err) == [op |-> op, err |-> err, user |-> NoUser]

\* RegisterUser up to its userRepo.FindByUsername: validation and
\* userRepo.FindByEmail; a call that fails returns here
RegisterUserCheck(p) ==
    /\ procs[p].pc = "idle"
    /\ \E input \in ConcRegisterUserInputs :
          LET v == validateUserInput(input)
              e == UserFindByEmail(users, input.Email)
          IN  IF v # NoError \/ e.err = NoError
              THEN /\ procs' = procs
                   /\ last' = UserFailed("RegisterUser",
                                         IF v # NoError THEN v ELSE ErrEmailRegistered)
              ELSE /\ procs' = [procs EXCEPT ![p] = [pc |-> "username", input |-> input]]
                   /\ last' = last
    /\ UNCHANGED <<tasks, users, issued, clock, held, jwtExpiry>>

\* RegisterUser from userRepo.FindByUsername up to userRepo.Create: the
\* username is looked up in the users as they are now, the password is
\* hashed and the user built; a call that fails returns here
RegisterUserCheckUsername(p) ==
    /\ procs[p].pc = "username"
    /\ IF UserFindByUsername(users, procs[p].input.Username).err = NoError
       THEN /\ procs' = [procs EXCEPT ![p] = [pc |-> "idle"]]
            /\ last' = UserFailed("RegisterUser", ErrUsernameTaken)
       ELSE /\ procs' = [procs EXCEPT ![p] = [pc |-> "create",
                                              user |-> NewUser(procs[p].input)]]
            /\ last' = last
    /\ UNCHANGED <<tasks, users, issued, clock, held, jwtExpiry>>

\* userRepository.Create up to its FindByUsername: the lookup by email
RegisterUserRepoCheck(p) ==
    /\ procs[p].pc = "create"
    /\ IF UserFindByEmail(users, procs[p].user.email).err = NoError
       THEN /\ procs' = [procs EXCEPT ![p] = [pc |-> "idle"]]
            /\ last' = [op |-> "RegisterUser", err |-> ErrDuplicateKey,
                        user |-> procs[p].user]
       ELSE /\ procs' = [procs EXCEPT ![p] = [pc |-> "createusername",
                                              user |-> procs[p].user]]
            /\ last' = last
    /\ UNCHANGED <<tasks, users, issued, clock, held, jwtExpiry>>

\* userRepository.Create from its FindByUsername up to InsertOne: the lookup
\* by username
RegisterUserRepoCheckUsername(p) ==
    /\ procs[p].pc = "createusername"
    /\ IF UserFindByUsername(users, procs[p].user.username).err = NoError
       THEN /\ procs' = [procs EXCEPT ![p] = [pc |-> "idle"]]
            /\ last' = [op |-> "RegisterUser", err |-> ErrDuplicateKey,
                        user |-> procs[p].user]
       ELSE /\ procs' = [procs EXCEPT ![p] = [pc |-> "insert", user |-> procs[p].user]]
            /\ last' = last
    /\ UNCHANGED <<tasks, users, issued, clock, held, jwtExpiry>>

\* userRepository.Create: the new ObjectID, InsertOne, and return
RegisterUserInsert(p) ==
    /\ procs[p].pc = "insert"
    /\ \E newID \in NewUserObjectID(issued, TRUE) :
          LET i == UserInsertOne(users, procs[p].user, newID) IN
          /\ users' = i.store
          /\ issued' = issued \cup {newID}
          /\ last' = [op |-> "RegisterUser", err |-> i.err, user |-> i.user]
    /\ procs' = [procs EXCEPT ![p] = [pc |-> "idle"]]
    /\ UNCHANGED <<tasks, clock, held, jwtExpiry>>

\* UpdateUser up to its userRepo.FindByEmail, or up to its userRepo.Update
\* when it looks no email up (none supplied, the user's own, or one that is
\* not well-formed): userRepo.FindByID and, without a lookup, the checks and
\* the changes to the copy; a call that fails returns here
UpdateUserRead(p) ==
    /\ procs[p].pc = "idle"
    /\ \E input \in ConcUpdateUserInputs :
          LET f == UserFindByID(users, ObjectIDFromHex(input.ID).id)
              changesEmail == input.Email # Empty /\ input.Email # f.user.email
              u == UpdateUserPrepare(users, f.user, input)
          IN  IF f.err # NoError
              THEN /\ procs' = procs
                   /\ last' = UserFailed("UpdateUser", f.err)
              ELSE IF changesEmail /\ isValidEmail(input.Email)
              THEN /\ procs' = [procs EXCEPT ![p] = [pc |-> "useremail", user |-> f.user,
                                                     input |-> input]]
                   /\ last' = last
              ELSE IF u.err # NoError
              THEN /\ procs' = procs
                   /\ last' = UserFailed("UpdateUser", u.err)
              ELSE /\ procs' = [procs EXCEPT ![p] = [pc |-> "userupdate", user |-> u.user]]
                   /\ last' = last
    /\ UNCHANGED <<tasks, users, issued, clock, held, jwtExpiry>>

\* UpdateUser from userRepo.FindByEmail up to its userRepo.Update: the new
\* email is looked up in the users as they are now and the copy of the user
\* read before is changed; a call that fails returns here
UpdateUserLookup(p) ==
    /\ procs[p].pc = "useremail"
    /\ LET u == UpdateUserPrepare(users, procs[p].user, procs[p].input) IN
       IF u.err # NoError
       THEN /\ procs' = [procs EXCEPT ![p] = [pc |-> "idle"]]
            /\ last' = UserFailed("UpdateUser", u.err)
       ELSE /\ procs' = [procs EXCEPT ![p] = [pc |-> "userupdate", user |-> u.user]]
            /\ last' = last
    /\ UNCHANGED <<tasks, users, issued, clock, held, jwtExpiry>>

\* UpdateUser: userRepo.Update(user) and return
UpdateUserWrite(p) ==
    /\ procs[p].pc = "userupdate"
    /\ LET w == UserRepoUpdate(users, procs[p].user) IN
       /\ users' = w.store
       /\ last' = [op |-> "UpdateUser", err |-> w.err, user |-> procs[p].user]
    /\ procs' = [procs EXCEPT ![p] = [pc |-> "idle"]]
    /\ UNCHANGED <<tasks, issued, clock, held, jwtExpiry>>

NextUserConc ==
    \/ \E p \in Processes : RegisterUserCheck(p)
    \/ \E p \in Processes : RegisterUserCheckUsername(p)
    \/ \E p \in Processes : RegisterUserRepoCheck(p)
    \/ \E p \in Processes : RegisterUserRepoCheckUsername(p)
    \/ \E p \in Processes : RegisterUserInsert(p)
    \/ \E p \in Processes : UpdateUserRead(p)
    \/ \E p \in Processes : UpdateUserLookup(p)
    \/ \E p \in Processes : UpdateUserWrite(p)

SpecUserConc == InitUser /\ [][NextUserConc]_vars

-----------------------------------------------------------------------------
(* Auth use case.  A signed token is represented by what it is made of:    *)
(* the algorithm of its header, its claims, and the key its signature was  *)
(* made with.  HS256 signing is a function of these: equal header, claims  *)
(* and key give the same token string.                                     *)

\* authUseCase.jwtSecret, and a key that is not the secret
JwtSecret == "jwt-secret"
OtherKey == "other-key"

ErrTokenMalformed == "token contains an invalid number of segments"
ErrSigningMethod == "unexpected signing method"
ErrSignatureInvalid == "signature is invalid"
ErrTokenExpired == "token is expired"
ErrTokenUsedBeforeIssued == "token used before issued"
ErrTokenNotValidYet == "token is not valid yet"
ErrUserIDInToken == "invalid user ID in token"

\* jwt.NewNumericDate: the time truncated to jwt.TimePrecision, a second
NewNumericDate(t) == t - (t % TicksPerSecond)

\* what a nil *LoginOutput result is represented by
NoToken == [alg |-> "", key |-> "", user_id |-> "", username |-> Empty,
            exp |-> 0, iat |-> 0, nbf |-> 0]

NoOutput == [AccessToken |-> NoToken, ExpiresAt |-> 0, UserID |-> "", Username |-> Empty]

\* a string that is not three base64 segments
MalformedToken == [NoToken EXCEPT !.alg = "malformed"]

\* generateJWT at clock reading t
generateJWT(user, t, expiry) ==
    [token |-> [alg |-> "HS256", key |-> JwtSecret,
                user_id |-> user.id, username |-> user.username,
                exp |-> NewNumericDate(t + expiry),
                iat |-> NewNumericDate(t),
                nbf |-> NewNumericDate(t)],
     expiresAt |-> t + expiry]

\* RegisteredClaims.VerifyExpiresAt that lets every token through
VerifyExpiresAt_Never(exp, t) == TRUE

\* RegisteredClaims.VerifyExpiresAt: now.Before(exp)
VerifyExpiresAt(exp, t) == t < exp

\* the algorithms whose signing method is a *jwt.SigningMethodHMAC
SigningMethodHMAC == {"HS256", "HS384", "HS512"}

\* RegisteredClaims.Valid at clock reading t: expiry, issued-at and not-before
\* are each verified, and the error kept is that of the last check that failed
ClaimsValid(token, t) ==
    IF ~(t >= token.nbf) THEN ErrTokenNotValidYet
    ELSE IF ~(t >= token.iat) THEN ErrTokenUsedBeforeIssued
    ELSE IF ~VerifyExpiresAt(token.exp, t) THEN ErrTokenExpired
    ELSE NoError

\* ValidateToken at clock reading t: jwt.ParseWithClaims with the key
\* function that returns the secret for every HMAC method and an error for
\* any other, then the claims' user id
ValidateTokenCall(token, t) ==
    IF token.alg = "malformed" THEN [err |-> ErrTokenMalformed, userID |-> ""]
    ELSE IF token.alg \notin SigningMethodHMAC
    THEN [err |-> ErrSigningMethod, userID |-> ""]
    ELSE IF token.key # JwtSecret THEN [err |-> ErrSignatureInvalid, userID |-> ""]
    ELSE IF ClaimsValid(token, t) # NoError
    THEN [err |-> ClaimsValid(token, t), userID |-> ""]
    ELSE [err |-> NoError, userID |-> token.user_id]

\* the LoginOutput of Login and RefreshToken for a user and its new token
LoginOutputOf(user, jwt) ==
    [AccessToken |-> jwt.token, ExpiresAt |-> jwt.expiresAt,
     UserID |-> user.id, Username |-> user.username]

\* Login at clock reading t; calls are the calls it makes on the user repository
LoginCall(us, input, t, expiry) ==
    LET f == FindByLogin(us, input.Login)
        calls == <<IF isValidEmail(input.Login) THEN "FindByEmail" ELSE "FindByUsername">>
    IN
    IF f.err # NoError THEN [err |-> LookupError(f.err), out |-> NoOutput, calls |-> calls]
    ELSE IF ~verifyPassword(f.user.password, input.Password)
    THEN [err |-> ErrInvalidCredentials, out |-> NoOutput, calls |-> calls]
    ELSE [err |-> NoError, out |-> LoginOutputOf(f.user, generateJWT(f.user, t, expiry)),
          calls |-> calls]

\* RefreshToken issuing the new token from the claims of the old one
RefreshTokenCall_FromClaims(us, token, t, expiry) ==
    LET v == ValidateTokenCall(token, t)
        uid == ObjectIDFromHex(v.userID)
        user == [NoUser EXCEPT !.id = uid.id, !.username = token.username]
    IN  IF v.err # NoError THEN [err |-> v.err, out |-> NoOutput, calls |-> << >>]
        ELSE IF ~uid.ok THEN [err |-> ErrUserIDInToken, out |-> NoOutput, calls |-> << >>]
        ELSE [err |-> NoError,
              out |-> LoginOutputOf(user, generateJWT(user, t, expiry)),
              calls |-> << >>]

\* RefreshToken at clock reading t; calls are the calls it makes on the user
\* repository
RefreshTokenCall(us, token, t, expiry) ==
    LET v == ValidateTokenCall(token, t)
        uid == ObjectIDFromHex(v.userID)
        f == UserFindByID(us, uid.id)
    IN  IF v.err # NoError THEN [err |-> v.err, out |-> NoOutput, calls |-> << >>]
        ELSE IF ~uid.ok THEN [err |-> ErrUserIDInToken, out |-> NoOutput, calls |-> << >>]
        ELSE IF f.err # NoError
        THEN [err |-> f.err, out |-> NoOutput, calls |-> <<"FindByID">>]
        ELSE [err |-> NoError,
              out |-> LoginOutputOf(f.user, generateJWT(f.user, t, expiry)),
              calls |-> <<"FindByID">>]

-----------------------------------------------------------------------------
(* State machine of the auth use case: one call at a time, while the clock *)
(* advances, on a users collection with two registered users.  `held` are  *)
(* the outputs callers have kept; the tokens presented to ValidateToken    *)
(* and RefreshToken are held ones and ones not made by this server.        *)

\* how many outputs callers keep
MaxHeld == 2

\* authUseCase.jwtExpiry: none, and a second
JwtExpiries == {0, TicksPerSecond}

LoginInputs == [Login : {Alice, EmailB}, Password : {Password1, Password2}]

\* tokens not made by this server: one for a1 signed with another key, one
\* with the "none" algorithm, one signed with the secret under HS384, one
\* signed with the secret that is expired and issued in the future, and a
\* string that is no token
ForgedTokens ==
    {[alg |-> "HS256", key |-> OtherKey, user_id |-> "a1", username |-> Alice,
      exp |-> NewNumericDate(TicksPerSecond + MaxTicks) + TicksPerSecond,
      iat |-> 0, nbf |-> 0],
     [alg |-> "none", key |-> "", user_id |-> "a1", username |-> Alice,
      exp |-> NewNumericDate(TicksPerSecond + MaxTicks) + TicksPerSecond,
      iat |-> 0, nbf |-> 0],
     [alg |-> "HS384", key |-> JwtSecret, user_id |-> "a1", username |-> Alice,
      exp |-> NewNumericDate(TicksPerSecond + MaxTicks) + TicksPerSecond,
      iat |-> 0, nbf |-> 0],
     [alg |-> "HS256", key |-> JwtSecret, user_id |-> "a1", username |-> Alice,
      exp |-> 0,
      iat |-> NewNumericDate(TicksPerSecond + MaxTicks) + TicksPerSecond, nbf |-> 0],
     MalformedToken}

HeldTokens == {h.AccessToken : h \in held}

\* the password changes and deletions that run between the auth calls
AuthUpdateUserInputs ==
    [ID : {"a1"}, Email : {Empty}, FirstName : {""}, LastName : {""},
     Password : {Password2}]

AuthDeleteUserInputs == {"a1"}

InitAuth ==
    /\ tasks = << >>
    /\ users = RegisteredUsers
    /\ issued = StoredUserIDs
    /\ last = Idle
    /\ procs = NoProcs
    /\ clock = TicksPerSecond
    /\ held = {}
    /\ jwtExpiry \in JwtExpiries

\* the record of a call of the auth use case that has returned: `at` is the
\* clock reading of the call, `before` the outputs held when it was made
AuthReturned(op, input, o, t, before) ==
    [op |-> op, input |-> input, err |-> o.err, out |-> o.out, calls |-> o.calls,
     at |-> t, before |-> before]

\* the caller keeps the output, if it keeps any more
Keep(o) ==
    IF o.err = NoError /\ Cardinality(held) < MaxHeld THEN held \cup {o.out} ELSE held

Login ==
    /\ last = Idle
    /\ \E input \in LoginInputs :
          LET o == LoginCall(users, input, clock, jwtExpiry) IN
          /\ held' = Keep(o)
          /\ last' = AuthReturned("Login", input, o, clock, held)
    /\ UNCHANGED <<tasks, users, issued, procs, clock, jwtExpiry>>

RefreshToken ==
    /\ last = Idle
    /\ \E token \in HeldTokens \cup ForgedTokens :
          LET o == RefreshTokenCall(users, token, clock, jwtExpiry) IN
          /\ held' = Keep(o)
          /\ last' = AuthReturned("RefreshToken", token, o, clock, held)
    /\ UNCHANGED <<tasks, users, issued, procs, clock, jwtExpiry>>

ValidateToken ==
    /\ last = Idle
    /\ \E token \in HeldTokens \cup ForgedTokens :
          LET v == ValidateTokenCall(token, clock) IN
          last' = [op |-> "ValidateToken", input |-> token, err |-> v.err,
                   userID |-> v.userID, at |-> clock, before |-> held]
    /\ UNCHANGED <<tasks, users, issued, procs, clock, held, jwtExpiry>>

\* UpdateUser changing the password of a registered user
AuthUpdateUser ==
    /\ last = Idle
    /\ \E input \in AuthUpdateUserInputs :
          LET o == UpdateUserCall(users, input) IN
          /\ users' = o.store
          /\ last' = UserReturned("UpdateUser", input, o, users)
    /\ UNCHANGED <<tasks, issued, procs, clock, held, jwtExpiry>>

\* DeleteUser of a registered user
AuthDeleteUser ==
    /\ last = Idle
    /\ \E id \in AuthDeleteUserInputs :
          LET o == DeleteUserCall(users, id) IN
          /\ users' = o.store
          /\ last' = UserReturned("DeleteUser", [ID |-> id], o, users)
    /\ UNCHANGED <<tasks, issued, procs, clock, held, jwtExpiry>>

NextAuth ==
    \/ Login
    \/ RefreshToken
    \/ ValidateToken
    \/ AuthUpdateUser
    \/ AuthDeleteUser
    \/ Return
    \/ Tick

SpecAuth == InitAuth /\ [][NextAuth]_vars

-----------------------------------------------------------------------------
(* Delivery: the REST router with its Auth middleware and its handlers,    *)
(* and the gRPC task service, in front of the use cases.  A response is    *)
(* the status answered, the use case operation that was called (NoCore if  *)
(* none was), the acting user id passed to it, the error it returned and   *)
(* the two stores after the request.                                       *)

StatusOK == "200 OK"
StatusCreated == "201 Created"
StatusNoContent == "204 No Content"
StatusBadRequest == "400 Bad Request"
StatusUnauthorized == "401 Unauthorized"
StatusForbidden == "403 Forbidden"
StatusNotFound == "404 Not Found"
StatusConflict == "409 Conflict"
StatusInternalServerError == "500 Internal Server Error"

CodeOK == "OK"
CodeInvalidArgument == "InvalidArgument"
CodeNotFound == "NotFound"
CodePermissionDenied == "PermissionDenied"
CodeInternal == "Internal"

NoCore == "none"

Response(status, core, actor, err, store, us) ==
    [status |-> status, core |-> core, actor |-> actor, err |-> err,
     tasks |-> store, users |-> us]

\* the request context a handler runs with
NoUserID == [ok |-> FALSE, userID |-> ""]
WithUserID(userID) == [ok |-> TRUE, userID |-> userID]

\* middleware.Auth passing every well-formed Bearer header on, with the user
\* id its token names
Auth_AnyBearer(header, t) ==
    IF header = << >> THEN NoUserID
    ELSE IF Len(header) # 2 \/ header[1] # "Bearer" THEN NoUserID
    ELSE WithUserID(header[2].user_id)

\* middleware.Auth on the Authorization header, given as the parts
\* strings.Split(authHeader, " ") yields (none for the empty header): the
\* context the next handler is called with, or NoUserID when the request is
\* answered with 401 and no handler is called
Auth(header, t) ==
    IF header = << >> THEN NoUserID
    ELSE IF Len(header) # 2 \/ header[1] # "Bearer" THEN NoUserID
    ELSE LET v == ValidateTokenCall(header[2], t) IN
         IF v.err # NoError THEN NoUserID ELSE WithUserID(v.userID)

\* a route of the `authenticated` subrouter of NewRouter: the handler is
\* called only by the Auth middleware, with the context the middleware made;
\* `handled` is the handler's response to the request in that context
Authenticated(header, t, store, us, handled) ==
    IF ~Auth(header, t).ok
    THEN Response(StatusUnauthorized, NoCore, "", NoError, store, us)
    ELSE handled

\* the statuses of TaskHandler.CreateTask
CreateTaskStatus(err) ==
    IF err = NoError THEN StatusCreated
    ELSE IF err = ErrInvalidInput THEN StatusBadRequest
    ELSE StatusInternalServerError

\* the statuses of TaskHandler.GetTask
GetTaskStatus(err) ==
    IF err = NoError THEN StatusOK
    ELSE IF err = ErrNotFound THEN StatusNotFound
    ELSE StatusInternalServerError

\* the statuses of TaskHandler.UpdateTask
UpdateTaskStatus(err) ==
    IF err = NoError THEN StatusOK
    ELSE IF err = ErrNotFound THEN StatusNotFound
    ELSE IF err = ErrUnauthorized THEN StatusForbidden
    ELSE IF err = ErrInvalidInput THEN StatusBadRequest
    ELSE StatusInternalServerError

\* the statuses of TaskHandler.DeleteTask
DeleteTaskStatus(err) ==
    IF err = NoError THEN StatusNoContent
    ELSE IF err = ErrNotFound THEN StatusNotFound
    ELSE IF err = ErrUnauthorized THEN StatusForbidden
    ELSE StatusInternalServerError

\* the statuses of TaskHandler.AssignTask
AssignTaskStatus(err) ==
    IF err = NoError THEN StatusOK
    ELSE IF err = ErrNotFound THEN StatusNotFound
    ELSE IF err = ErrUnauthorized THEN StatusForbidden
    ELSE StatusInternalServerError

\* the statuses of UserHandler.UpdateUser
UpdateUserStatus(err) ==
    IF err = NoError THEN StatusOK
    ELSE IF err = ErrNotFound THEN StatusNotFound
    ELSE IF err = ErrInvalidInput THEN StatusBadRequest
    ELSE IF err = ErrDuplicateKey THEN StatusConflict
    ELSE StatusInternalServerError

\* TaskHandler.CreateTask.  body.json is whether the body decodes; a body's
\* UserID is a member the request struct does not have
HandlerCreateTask(store, us, ctx, body, newID, t) ==
    LET input == [Title |-> body.Title, Description |-> body.Description,
                  Priority |-> body.Priority, DueDate |-> body.DueDate,
                  CreatedBy |-> ctx.userID]
        o == CreateTaskCall(store, us, input, newID, t)
    IN  IF ~body.json THEN Response(StatusBadRequest, NoCore, "", NoError, store, us)
        ELSE IF ~ctx.ok THEN Response(StatusUnauthorized, NoCore, "", NoError, store, us)
        ELSE Response(CreateTaskStatus(o.err), "CreateTask", input.CreatedBy, o.err,
                      o.store, us)

\* TaskHandler.GetTask
HandlerGetTask(store, us, ctx, taskID) ==
    LET o == GetTaskByIDCall(store, taskID) IN
    Response(GetTaskStatus(o.err), "GetTaskByID", "", o.err, o.store, us)

\* TaskHandler.UpdateTask
HandlerUpdateTask(store, us, ctx, taskID, body, t) ==
    LET input == [ID |-> taskID, Title |-> body.Title, Description |-> body.Description,
                  Status |-> body.Status, Priority |-> body.Priority,
                  DueDate |-> body.DueDate, UpdatedBy |-> ctx.userID]
        o == UpdateTaskCall(store, input, t)
    IN  IF ~ctx.ok THEN Response(StatusUnauthorized, NoCore, "", NoError, store, us)
        ELSE IF ~body.json THEN Response(StatusBadRequest, NoCore, "", NoError, store, us)
        ELSE Response(UpdateTaskStatus(o.err), "UpdateTask", input.UpdatedBy, o.err,
                      o.store, us)

\* TaskHandler.DeleteTask
HandlerDeleteTask(store, us, ctx, taskID) ==
    LET o == DeleteTaskCall(store, taskID, ctx.userID) IN
    IF ~ctx.ok THEN Response(StatusUnauthorized, NoCore, "", NoError, store, us)
    ELSE Response(DeleteTaskStatus(o.err), "DeleteTask", ctx.userID, o.err, o.store, us)

\* TaskHandler.AssignTask
HandlerAssignTask(store, us, ctx, taskID, body, t) ==
    LET input == [TaskID |-> taskID, AssigneeID |-> body.AssigneeID,
                  AssignedBy |-> ctx.userID]
        o == AssignTaskCall(store, us, input, t)
    IN  IF ~ctx.ok THEN Response(StatusUnauthorized, NoCore, "", NoError, store, us)
        ELSE IF ~body.json THEN Response(StatusBadRequest, NoCore, "", NoError, store, us)
        ELSE Response(AssignTaskStatus(o.err), "AssignTask", input.AssignedBy, o.err,
                      o.store, us)

\* UserHandler.UpdateUser
HandlerUpdateUser(store, us, ctx, userID, body) ==
    LET input == [ID |-> userID, Email |-> body.Email, FirstName |-> body.FirstName,
                  LastName |-> body.LastName, Password |-> body.Password]
        o == UpdateUserCall(us, input)
    IN  IF ~ctx.ok THEN Response(StatusUnauthorized, NoCore, "", NoError, store, us)
        ELSE IF ctx.userID # userID
        THEN Response(StatusForbidden, NoCore, "", NoError, store, us)
        ELSE IF ~body.json THEN Response(StatusBadRequest, NoCore, "", NoError, store, us)
        ELSE Response(UpdateUserStatus(o.err), "UpdateUser", input.ID, o.err, store,
                      o.store)

\* AuthHandler.Register: a route without the Auth middleware
HandlerRegister(store, us, body, newID) ==
    LET input == [Username |-> body.Username, Email |-> body.Email,
                  Password |-> body.Password, FirstName |-> body.FirstName,
                  LastName |-> body.LastName]
        o == RegisterUserCall(us, input, newID)
    IN  IF ~body.json THEN Response(StatusBadRequest, NoCore, "", NoError, store, us)
        ELSE IF o.err # NoError
        THEN Response(StatusBadRequest, "RegisterUser", "", o.err, store, us)
        ELSE Response(StatusCreated, "RegisterUser", "", NoError, store, o.store)

\* the proto.TaskStatus values and the domain status UpdateTask maps them to
ProtoStatuses ==
    {"TASK_STATUS_UNSPECIFIED", "TASK_STATUS_PENDING", "TASK_STATUS_IN_PROGRESS",
     "TASK_STATUS_COMPLETED"}

ProtoStatusToDomain(s) ==
    IF s = "TASK_STATUS_PENDING" THEN TaskStatusPending
    ELSE IF s = "TASK_STATUS_IN_PROGRESS" THEN TaskStatusInProgress
    ELSE IF s = "TASK_STATUS_COMPLETED" THEN TaskStatusCompleted
    ELSE ""

\* the codes of the task service for the error of UpdateTask, DeleteTask and
\* AssignTask
ServiceCode(err) ==
    IF err = NoError THEN CodeOK
    ELSE IF err = ErrNotFound THEN CodeNotFound
    ELSE IF err = ErrUnauthorized THEN CodePermissionDenied
    ELSE CodeInternal

\* TaskService.CreateTask.  req.authorization is the request's authorization
\* metadata, which the method does not read
ServiceCreateTask(store, us, req, newID, t) ==
    LET input == [Title |-> req.Title, Description |-> req.Description,
                  Priority |-> req.Priority, DueDate |-> req.DueDate,
                  CreatedBy |-> req.CreatedBy]
        o == CreateTaskCall(store, us, input, newID, t)
    IN  IF req.Title = ""
        THEN Response(CodeInvalidArgument, NoCore, "", NoError, store, us)
        ELSE IF req.Priority < 1 \/ req.Priority > 5
        THEN Response(CodeInvalidArgument, NoCore, "", NoError, store, us)
        ELSE Response(IF o.err # NoError THEN CodeInternal ELSE CodeOK, "CreateTask",
                      input.CreatedBy, o.err, o.store, us)

\* TaskService.UpdateTask
ServiceUpdateTask(store, us, req, t) ==
    LET input == [ID |-> req.Id, Title |-> req.Title, Description |-> req.Description,
                  Status |-> ProtoStatusToDomain(req.Status), Priority |-> req.Priority,
                  DueDate |-> req.DueDate, UpdatedBy |-> req.UpdatedBy]
        o == UpdateTaskCall(store, input, t)
    IN  IF req.Id = "" THEN Response(CodeInvalidArgument, NoCore, "", NoError, store, us)
        ELSE Response(ServiceCode(o.err), "UpdateTask", input.UpdatedBy, o.err,
                      o.store, us)

\* TaskService.DeleteTask
ServiceDeleteTask(store, us, req) ==
    LET o == DeleteTaskCall(store, req.Id, req.UserId) IN
    IF req.Id = "" THEN Response(CodeInvalidArgument, NoCore, "", NoError, store, us)
    ELSE Response(ServiceCode(o.err), "DeleteTask", req.UserId, o.err, o.store, us)

\* TaskService.AssignTask
ServiceAssignTask(store, us, req, t) ==
    LET input == [TaskID |-> req.TaskId, AssigneeID |-> req.AssigneeId,
                  AssignedBy |-> req.AssignedBy]
        o == AssignTaskCall(store, us, input, t)
    IN  IF req.TaskId = "" THEN Response(CodeInvalidArgument, NoCore, "", NoError, store, us)
        ELSE IF req.AssigneeId = ""
        THEN Response(CodeInvalidArgument, NoCore, "", NoError, store, us)
        ELSE Response(ServiceCode(o.err), "AssignTask", input.AssignedBy, o.err,
                      o.store, us)

-----------------------------------------------------------------------------
(* State machine: REST and gRPC requests, one at a time, against two       *)
(* registered users, while the clock advances.                             *)

Carol == <<"c", "a", "r", "o", "l">>
EmailC == <<"c", "@", "x", ".", "i", "o">>

\* the tokens clients hold: those Login issued to the registered users when
\* the run began
ClientTokens ==
    {generateJWT(users[u], TicksPerSecond, jwtExpiry).token :
        u \in StoredUserIDs \cap DOMAIN users}

\* Authorization headers, as their parts: none, a scheme alone, a held or a
\* forged token as Bearer, a held token under another scheme
RestHeaders ==
    {<< >>, <<"Bearer">>}
        \cup {<<"Bearer", tk>> : tk \in ClientTokens \cup ForgedTokens}
        \cup {<<"Basic", tk>> : tk \in ClientTokens}

\* authorization metadata values of a gRPC request
GrpcAuthorizations ==
    {<< >>} \cup {<<tk>> : tk \in ClientTokens \cup {MalformedToken}}

RestCreateTaskBodies ==
    [json : BOOLEAN, Title : {"a"}, Description : {""},
     Priority : {MinPriority, MaxPriority + PrioritySlack}, DueDate : {ZeroTime},
     UserID : {"a2"}]

RestUpdateTaskBodies ==
    [json : BOOLEAN, Title : {"", "b"}, Description : {""},
     Status : {"", TaskStatusInProgress}, Priority : {0, MaxPriority + PrioritySlack},
     DueDate : {ZeroTime}, UserID : {"a1"}]

RestAssignTaskBodies == [json : BOOLEAN, AssigneeID : {"a2", "a3"}, UserID : {"a1"}]

RestUpdateUserBodies ==
    [json : BOOLEAN, Email : {Empty, EmailB}, FirstName : {""}, LastName : {""},
     Password : {Empty, Password2}]

RestRegisterBodies ==
    [json : BOOLEAN, Username : {Alice, Carol}, Email : {EmailA, EmailC},
     Password : {Password1}, FirstName : {""}, LastName : {""}]

GrpcCreateTaskRequests ==
    [authorization : GrpcAuthorizations, Title : {"", "a"}, Description : {""},
     Priority : {MinPriority, MaxPriority + PrioritySlack}, DueDate : {ZeroTime},
     CreatedBy : {"a1"}]

GrpcUpdateTaskRequests ==
    [authorization : GrpcAuthorizations, Id : {""} \cup TaskIDs, Title : {"", "b"},
     Description : {""}, Status : {"TASK_STATUS_UNSPECIFIED", "TASK_STATUS_IN_PROGRESS"},
     Priority : {0, MaxPriority + PrioritySlack}, DueDate : {ZeroTime},
     UpdatedBy : StoredUserIDs]

GrpcDeleteTaskRequests ==
    [authorization : GrpcAuthorizations, Id : {""} \cup TaskIDs, UserId : StoredUserIDs]

GrpcAssignTaskRequests ==
    [authorization : GrpcAuthorizations, TaskId : {""} \cup TaskIDs,
     AssigneeId : {"", "a2"}, AssignedBy : {"a1"}]

InitApi ==
    /\ tasks = << >>
    /\ users = RegisteredUsers
    /\ issued = StoredUserIDs
    /\ last = Idle
    /\ procs = NoProcs
    /\ clock = TicksPerSecond
    /\ held = {}
    /\ jwtExpiry = TicksPerSecond

\* the record of a request that has been answered: `at` is the clock reading
\* of the request, `before` and `usersBefore` the stores when it arrived
Answered(op, transport, request, r) ==
    [op |-> op, transport |-> transport, request |-> request, status |-> r.status,
     core |-> r.core, actor |-> r.actor, err |-> r.err, at |-> clock,
     before |-> tasks, usersBefore |-> users]

\* the ObjectID a request that creates a document is given; a request that
\* creates none is given none
Creates(r, stored, newID) ==
    /\ (newID # NilObjectID) <=> (r.err = NoError /\ r.core # NoCore)
    /\ newID # NilObjectID => newID \notin stored

\* POST /api/v1/tasks
RestCreateTask ==
    /\ last = Idle
    /\ \E header \in RestHeaders, body \in RestCreateTaskBodies,
          newID \in TaskIDs \cup {NilObjectID} :
          LET ctx == Auth(header, clock)
              r == Authenticated(header, clock, tasks, users,
                                 HandlerCreateTask(tasks, users, ctx, body, newID, clock))
          IN  /\ Creates(r, issued, newID)
              /\ tasks' = r.tasks
              /\ issued' = IF newID # NilObjectID THEN issued \cup {newID} ELSE issued
              /\ last' = Answered("CreateTask", "REST",
                                  [header |-> header, id |-> "", body |-> body], r)
    /\ UNCHANGED <<users, procs, clock, held, jwtExpiry>>

\* GET /api/v1/tasks/{id}
RestGetTask ==
    /\ last = Idle
    /\ \E header \in RestHeaders, id \in TaskIDs :
          LET ctx == Auth(header, clock)
              r == Authenticated(header, clock, tasks, users,
                                 HandlerGetTask(tasks, users, ctx, id))
          IN  last' = Answered("GetTask", "REST",
                               [header |-> header, id |-> id, body |-> << >>], r)
    /\ UNCHANGED <<tasks, users, issued, procs, clock, held, jwtExpiry>>

\* PUT /api/v1/tasks/{id}
RestUpdateTask ==
    /\ last = Idle
    /\ \E header \in RestHeaders, id \in TaskIDs, body \in RestUpdateTaskBodies :
          LET ctx == Auth(header, clock)
              r == Authenticated(header, clock, tasks, users,
                                 HandlerUpdateTask(tasks, users, ctx, id, body, clock))
          IN  /\ tasks' = r.tasks
              /\ last' = Answered("UpdateTask", "REST",
                                  [header |-> header, id |-> id, body |-> body], r)
    /\ UNCHANGED <<users, issued, procs, clock, held, jwtExpiry>>

\* DELETE /api/v1/tasks/{id}
RestDeleteTask ==
    /\ last = Idle
    /\ \E header \in RestHeaders, id \in TaskIDs :
          LET ctx == Auth(header, clock)
              r == Authenticated(header, clock, tasks, users,
                                 HandlerDeleteTask(tasks, users, ctx, id))
          IN  /\ tasks' = r.tasks
              /\ last' = Answered("DeleteTask", "REST",
                                  [header |-> header, id |-> id, body |-> << >>], r)
    /\ UNCHANGED <<users, issued, procs, clock, held, jwtExpiry>>

\* POST /api/v1/tasks/{id}/assign
RestAssignTask ==
    /\ last = Idle
    /\ \E header \in RestHeaders, id \in TaskIDs, body \in RestAssignTaskBodies :
          LET ctx == Auth(header, clock)
              r == Authenticated(header, clock, tasks, users,
                                 HandlerAssignTask(tasks, users, ctx, id, body, clock))
          IN  /\ tasks' = r.tasks
              /\ last' = Answered("AssignTask", "REST",
                                  [header |-> header, id |-> id, body |-> body], r)
    /\ UNCHANGED <<users, issued, procs, clock, held, jwtExpiry>>

\* PUT /api/v1/users/{id}
RestUpdateUser ==
    /\ last = Idle
    /\ \E header \in RestHeaders, id \in StoredUserIDs, body \in RestUpdateUserBodies :
          LET ctx == Auth(header, clock)
              r == Authenticated(header, clock, tasks, users,
                                 HandlerUpdateUser(tasks, users, ctx, id, body))
          IN  /\ users' = r.users
              /\ last' = Answered("UpdateUser", "REST",
                                  [header |-> header, id |-> id, body |-> body], r)
    /\ UNCHANGED <<tasks, issued, procs, clock, held, jwtExpiry>>

\* POST /api/v1/auth/register
RestRegister ==
    /\ last = Idle
    /\ \E header \in {<< >>}, body \in RestRegisterBodies,
          newID \in UserIDs \cup {NilObjectID} :
          LET r == HandlerRegister(tasks, users, body, newID) IN
          /\ Creates(r, issued, newID)
          /\ users' = r.users
          /\ issued' = IF newID # NilObjectID THEN issued \cup {newID} ELSE issued
          /\ last' = Answered("Register", "REST",
                              [header |-> header, id |-> "", body |-> body], r)
    /\ UNCHANGED <<tasks, procs, clock, held, jwtExpiry>>

\* TaskService/CreateTask
GrpcCreateTask ==
    /\ last = Idle
    /\ \E req \in GrpcCreateTaskRequests, newID \in TaskIDs \cup {NilObjectID} :
          LET r == ServiceCreateTask(tasks, users, req, newID, clock) IN
          /\ Creates(r, issued, newID)
          /\ tasks' = r.tasks
          /\ issued' = IF newID # NilObjectID THEN issued \cup {newID} ELSE issued
          /\ last' = Answered("CreateTask", "gRPC", req, r)
    /\ UNCHANGED <<users, procs, clock, held, jwtExpiry>>

\* TaskService/UpdateTask
GrpcUpdateTask ==
    /\ last = Idle
    /\ \E req \in GrpcUpdateTaskRequests :
          LET r == ServiceUpdateTask(tasks, users, req, clock) IN
          /\ tasks' = r.tasks
          /\ last' = Answered("UpdateTask", "gRPC", req, r)
    /\ UNCHANGED <<users, issued, procs, clock, held, jwtExpiry>>

\* TaskService/DeleteTask
GrpcDeleteTask ==
    /\ last = Idle
    /\ \E req \in GrpcDeleteTaskRequests :
          LET r == ServiceDeleteTask(tasks, users, req) IN
          /\ tasks' = r.tasks
          /\ last' = Answered("DeleteTask", "gRPC", req, r)
    /\ UNCHANGED <<users, issued, procs, clock, held, jwtExpiry>>

\* TaskService/AssignTask
GrpcAssignTask ==
    /\ last = Idle
    /\ \E req \in GrpcAssignTaskRequests :
          LET r == ServiceAssignTask(tasks, users, req, clock) IN
          /\ tasks' = r.tasks
          /\ last' = Answered("AssignTask", "gRPC", req, r)
    /\ UNCHANGED <<users, issued, procs, clock, held, jwtExpiry>>

NextApi ==
    \/ RestCreateTask
    \/ RestGetTask
    \/ RestUpdateTask
    \/ RestDeleteTask
    \/ RestAssignTask
    \/ RestUpdateUser
    \/ RestRegister
    \/ GrpcCreateTask
    \/ GrpcUpdateTask
    \/ GrpcDeleteTask
    \/ GrpcAssignTask
    \/ Return
    \/ Tick

SpecApi == InitApi /\ [][NextApi]_vars

-----------------------------------------------------------------------------
(* Listing.  The results of collection.Find sorted by due_date: documents  *)
(* due at the same time come in an order the driver does not fix, so a     *)
(* lookup has a set of possible results.                                   *)

\* the order of the due dates supplied
DueDateRank(dueDate) == IF dueDate = ZeroTime THEN 0 ELSE 1

\* the sequences of the documents with the given ids, each once, sorted by
\* due_date ascending
SortedByDueDate(store, ids) ==
    {result \in [1..Cardinality(ids) -> {store[i] : i \in ids}] :
        /\ \A i, j \in 1..Cardinality(ids) : i # j => result[i].id # result[j].id
        /\ \A i, j \in 1..Cardinality(ids) :
              i < j => DueDateRank(result[i].dueDate) <= DueDateRank(result[j].dueDate)}

\* taskRepository.FindAll(nil)
FindAll(store) == SortedByDueDate(store, DOMAIN store)

\* taskRepository.FindByStatus without the filter
FindByStatus_Unfiltered(store, status) == SortedByDueDate(store, DOMAIN store)

\* taskRepository.FindByStatus
FindByStatus(store, status) ==
    SortedByDueDate(store, {i \in DOMAIN store : store[i].status = status})

\* ListTasks: input.nil is a nil *ListTasksInput
ListTasksCall(store, input) ==
    IF ~input.nil /\ input.Status # "" THEN FindByStatus(store, input.Status)
    ELSE FindAll(store)

\* State machine: tasks are created, advanced, deleted and listed
ListTaskIDs == {"f1", "f2"}

ListCreateTaskInputs ==
    [Title : {"a"}, Description : {""}, Priority : {MinPriority}, DueDate : DueDates,
     CreatedBy : {"a1"}]

ListUpdateTaskInputs ==
    [ID : ListTaskIDs, Title : {""}, Description : {""},
     Status : {TaskStatusInProgress, TaskStatusCompleted}, Priority : {0},
     DueDate : {ZeroTime}, UpdatedBy : {"a1"}]

ListTasksInputs == [nil : BOOLEAN, Status : StatusInputs]

ListCreateTask ==
    /\ last = Idle
    /\ \E input \in ListCreateTaskInputs, newID \in ListTaskIDs \ issued :
          LET o == CreateTaskCall(tasks, users, input, newID, clock) IN
          /\ tasks' = o.store
          /\ issued' = IF o.err = NoError THEN issued \cup {newID} ELSE issued
          /\ last' = Returned("CreateTask", input, o, tasks)
    /\ UNCHANGED <<clock, held, jwtExpiry, users, procs>>

ListUpdateTask == UpdateTaskWith(ListUpdateTaskInputs)

ListDeleteTask ==
    /\ last = Idle
    /\ \E id \in ListTaskIDs :
          LET o == DeleteTaskCall(tasks, id, "a1") IN
          /\ tasks' = o.store
          /\ last' = Returned("DeleteTask", [id |-> id, userID |-> "a1"], o, tasks)
    /\ UNCHANGED <<clock, held, jwtExpiry, users, issued, procs>>

ListTasks ==
    /\ last = Idle
    /\ \E input \in ListTasksInputs :
          \E result \in ListTasksCall(tasks, input) :
             last' = [op |-> "ListTasks", input |-> input, err |-> NoError,
                      result |-> result, before |-> tasks]
    /\ UNCHANGED <<tasks, clock, held, jwtExpiry, users, issued, procs>>

NextList ==
    \/ ListCreateTask
    \/ ListUpdateTask
    \/ ListDeleteTask
    \/ ListTasks
    \/ Return

SpecList == Init /\ [][NextList]_vars

-----------------------------------------------------------------------------
(* State machine: interleaved calls that keep what they read.  As in       *)
(* SpecConc a call takes one step for every call it makes on a repository; *)
(* here a process keeps its input and the task as it read it next to its   *)
(* changed copy, a call that fails before its write returns its error, and *)
(* `last` is the call that returned last: its error, the task it read, the *)
(* task it gave to the repository (NoTask if it gave none) and the store   *)
(* before its last step.                                                   *)

RaceCreateTaskInputs ==
    [Title : {"a"}, Description : {""}, Priority : {MinPriority}, DueDate : {ZeroTime},
     CreatedBy : {"a1"}]

RaceUpdateTaskInputs ==
    [ID : TaskIDs, Title : {"", "b"}, Description : {""},
     Status : {"", TaskStatusInProgress},
     Priority : {0, MaxPriority}, DueDate : {ZeroTime}, UpdatedBy : {"a1"}]

RaceAssignTaskInputs == [TaskID : TaskIDs, AssigneeID : {"a2"}, AssignedBy : {"a1"}]

RaceDeleteTaskInputs == [id : TaskIDs, userID : {"a1"}]

Completed(op, id, input, err, read, written, before) ==
    [op |-> op, id |-> id, input |-> input, err |-> err, read |-> read,
     written |-> written, before |-> before]

Reading(pc, input, read, task) ==
    [pc |-> pc, input |-> input, read |-> read, task |-> task]

\* CreateTask up to its taskRepo.Create: validation and userRepo.FindByID of
\* the creator
RaceCreateTaskLookup(p) ==
    /\ procs[p].pc = "idle"
    /\ CreatesUnderWay < Cardinality(TaskIDs \ issued)
    /\ \E input \in RaceCreateTaskInputs :
          LET c == CreateTaskPrepare(users, input) IN
          IF c.err # NoError
          THEN /\ last' = Completed("CreateTask", NilObjectID, input, c.err, NoTask,
                                    NoTask, tasks)
               /\ procs' = procs
          ELSE /\ procs' = [procs EXCEPT ![p] = Reading("create", input, NoTask, c.task)]
               /\ last' = last
    /\ UNCHANGED <<clock, held, jwtExpiry, tasks, users, issued>>

\* CreateTask: taskRepo.Create(task) and return
RaceCreateTaskInsert(p) ==
    /\ procs[p].pc = "create"
    /\ \E newID \in NewObjectID(issued, TRUE) :
          LET c == RepoCreate(tasks, procs[p].task, newID, clock) IN
          /\ tasks' = c.store
          /\ issued' = issued \cup {newID}
          /\ last' = Completed("CreateTask", c.task.id, procs[p].input, c.err, NoTask,
                               c.task, tasks)
    /\ procs' = [procs EXCEPT ![p] = [pc |-> "idle"]]
    /\ UNCHANGED <<clock, held, jwtExpiry, users>>

\* GetTaskByID: one read
RaceGetTaskByID ==
    /\ \E id \in TaskIDs :
          LET o == GetTaskByIDCall(tasks, id) IN
          last' = Completed("GetTaskByID", id, [id |-> id], o.err, o.task, NoTask, tasks)
    /\ UNCHANGED <<clock, held, jwtExpiry, tasks, users, issued, procs>>

\* UpdateTask up to its taskRepo.Update
RaceUpdateTaskRead(p) ==
    /\ procs[p].pc = "idle"
    /\ \E input \in RaceUpdateTaskInputs :
          LET f == FindByID(tasks, ObjectIDFromHex(input.ID).id)
              u == UpdateTaskPrepare(f.task, input)
          IN  IF f.err # NoError \/ u.err # NoError
              THEN /\ last' = Completed("UpdateTask", input.ID, input,
                                        IF f.err # NoError THEN f.err ELSE u.err,
                                        f.task, NoTask, tasks)
                   /\ procs' = procs
              ELSE /\ procs' = [procs EXCEPT ![p] = Reading("update", input, f.task, u.task)]
                   /\ last' = last
    /\ UNCHANGED <<clock, held, jwtExpiry, tasks, users, issued>>

\* UpdateTask: taskRepo.Update(task) and return
RaceUpdateTaskWrite(p) ==
    /\ procs[p].pc = "update"
    /\ LET u == RepoUpdate(tasks, procs[p].task, clock) IN
       /\ tasks' = u.store
       /\ last' = Completed("UpdateTask", procs[p].input.ID, procs[p].input, u.err,
                            procs[p].read, procs[p].task, tasks)
    /\ procs' = [procs EXCEPT ![p] = [pc |-> "idle"]]
    /\ UNCHANGED <<clock, held, jwtExpiry, users, issued>>

\* AssignTask up to its userRepo.FindByID: the task is read and the assigner
\* compared with its creator
RaceAssignTaskRead(p) ==
    /\ procs[p].pc = "idle"
    /\ \E input \in RaceAssignTaskInputs :
          LET f == FindByID(tasks, ObjectIDFromHex(input.TaskID).id)
              authorized == f.task.createdBy = ObjectIDFromHex(input.AssignedBy).id
          IN  IF f.err # NoError \/ ~authorized
              THEN /\ last' = Completed("AssignTask", input.TaskID, input,
                                        IF f.err # NoError THEN f.err ELSE ErrUnauthorized,
                                        f.task, NoTask, tasks)
                   /\ procs' = procs
              ELSE /\ procs' = [procs EXCEPT ![p] = Reading("assignee", input, f.task, f.task)]
                   /\ last' = last
    /\ UNCHANGED <<clock, held, jwtExpiry, tasks, users, issued>>

\* AssignTask from userRepo.FindByID of the assignee up to its
\* taskRepo.Update
RaceAssignTaskLookup(p) ==
    /\ procs[p].pc = "assignee"
    /\ LET input == procs[p].input
           a == AssignTaskPrepare(users, procs[p].read,
                                  ObjectIDFromHex(input.AssigneeID).id,
                                  ObjectIDFromHex(input.AssignedBy).id)
       IN  IF a.err # NoError
           THEN /\ last' = Completed("AssignTask", input.TaskID, input, a.err,
                                     procs[p].read, NoTask, tasks)
                /\ procs' = [procs EXCEPT ![p] = [pc |-> "idle"]]
           ELSE /\ procs' = [procs EXCEPT ![p] = Reading("assign", input, procs[p].read,
                                                         a.task)]
                /\ last' = last
    /\ UNCHANGED <<clock, held, jwtExpiry, tasks, users, issued>>

\* AssignTask: taskRepo.Update(task) and return
RaceAssignTaskWrite(p) ==
    /\ procs[p].pc = "assign"
    /\ LET u == RepoUpdate(tasks, procs[p].task, clock) IN
       /\ tasks' = u.store
       /\ last' = Completed("AssignTask", procs[p].input.TaskID, procs[p].input, u.err,
                            procs[p].read, procs[p].task, tasks)
    /\ procs' = [procs EXCEPT ![p] = [pc |-> "idle"]]
    /\ UNCHANGED <<clock, held, jwtExpiry, users, issued>>

\* DeleteTask up to its taskRepo.Delete
RaceDeleteTaskRead(p) ==
    /\ procs[p].pc = "idle"
    /\ \E input \in RaceDeleteTaskInputs :
          LET f == FindByID(tasks, ObjectIDFromHex(input.id).id)
              authorized == DeleteAuthorized(f.task, ObjectIDFromHex(input.userID).id)
          IN  IF f.err # NoError \/ ~authorized
              THEN /\ last' = Completed("DeleteTask", input.id, input,
                                        IF f.err # NoError THEN f.err ELSE ErrUnauthorized,
                                        f.task, NoTask, tasks)
                   /\ procs' = procs
              ELSE /\ procs' = [procs EXCEPT ![p] = Reading("delete", input, f.task, f.task)]
                   /\ last' = last
    /\ UNCHANGED <<clock, held, jwtExpiry, tasks, users, issued>>

\* DeleteTask: taskRepo.Delete(taskID) and return
RaceDeleteTaskWrite(p) ==
    /\ procs[p].pc = "delete"
    /\ LET d == RepoDelete(tasks, procs[p].task.id) IN
       /\ tasks' = d.store
       /\ last' = Completed("DeleteTask", procs[p].input.id, procs[p].input, d.err,
                            procs[p].read, NoTask, tasks)
    /\ procs' = [procs EXCEPT ![p] = [pc |-> "idle"]]
    /\ UNCHANGED <<clock, held, jwtExpiry, users, issued>>

NextRace ==
    \/ \E p \in Processes : RaceCreateTaskLookup(p)
    \/ \E p \in Processes : RaceCreateTaskInsert(p)
    \/ RaceGetTaskByID
    \/ \E p \in Processes : RaceUpdateTaskRead(p)
    \/ \E p \in Processes : RaceUpdateTaskWrite(p)
    \/ \E p \in Processes : RaceAssignTaskRead(p)
    \/ \E p \in Processes : RaceAssignTaskLookup(p)
    \/ \E p \in Processes : RaceAssignTaskWrite(p)
    \/ \E p \in Processes : RaceDeleteTaskRead(p)
    \/ \E p \in Processes : RaceDeleteTaskWrite(p)

SpecRace == Init /\ [][NextRace]_vars

-----------------------------------------------------------------------------
(* Persistence failures.  A call on a repository can fail with an error    *)
(* that is not not-found (a timeout, a lost connection).  An operation     *)
(* run with a fault is run with the named repository call failing that     *)
(* way; its outcome carries the repository calls it made, in order, each   *)
(* with the error it returned.                                             *)

ErrStore == "context deadline exceeded"

NoFault == "none"

Call(name, err) == [name |-> name, err |-> err]

FailedLookup == [err |-> ErrStore, user |-> NoUser]

FaultOutcome(err, store, us, calls) ==
    [err |-> err, tasks |-> store, users |-> us, calls |-> calls]

\* RegisterUser: userRepo.FindByEmail, userRepo.FindByUsername, and
\* userRepo.Create with its own two lookups and its InsertOne
RegisterUserFaults ==
    {"FindByEmail", "FindByUsername", "Create/FindByEmail", "Create/FindByUsername",
     "Create/InsertOne"}

RegisterUserWithFault(store, us, input, newID, fault) ==
    LET v == validateUserInput(input)
        e1 == IF fault = "FindByEmail" THEN FailedLookup
              ELSE UserFindByEmail(us, input.Email)
        n1 == IF fault = "FindByUsername" THEN FailedLookup
              ELSE UserFindByUsername(us, input.Username)
        user == NewUser(input)
        e2 == IF fault = "Create/FindByEmail" THEN FailedLookup
              ELSE UserFindByEmail(us, user.email)
        n2 == IF fault = "Create/FindByUsername" THEN FailedLookup
              ELSE UserFindByUsername(us, user.username)
        ins == IF fault = "Create/InsertOne"
               THEN [err |-> ErrStore, user |-> user, store |-> us]
               ELSE UserInsertOne(us, user, newID)
        c1 == <<Call("FindByEmail", e1.err)>>
        c2 == c1 \o <<Call("FindByUsername", n1.err)>>
        c3 == c2 \o <<Call("Create/FindByEmail", e2.err)>>
        c4 == c3 \o <<Call("Create/FindByUsername", n2.err)>>
        c5 == c4 \o <<Call("Create/InsertOne", ins.err)>>
    IN  IF v # NoError THEN FaultOutcome(v, store, us, << >>)
        ELSE IF e1.err = NoError THEN FaultOutcome(ErrEmailRegistered, store, us, c1)
        ELSE IF n1.err = NoError THEN FaultOutcome(ErrUsernameTaken, store, us, c2)
        ELSE IF e2.err = NoError THEN FaultOutcome(ErrDuplicateKey, store, us, c3)
        ELSE IF n2.err = NoError THEN FaultOutcome(ErrDuplicateKey, store, us, c4)
        ELSE FaultOutcome(ins.err, store, ins.store, c5)

\* UpdateUser: userRepo.FindByID, userRepo.FindByEmail when the email
\* changes, userRepo.Update
UpdateUserFaults == {"FindByID", "FindByEmail", "Update"}

UpdateUserWithFault(store, us, input, fault) ==
    LET uid == ObjectIDFromHex(input.ID)
        f == IF fault = "FindByID" THEN FailedLookup ELSE UserFindByID(us, uid.id)
        user == f.user
        changesEmail == input.Email # Empty /\ input.Email # user.email
        existing == IF fault = "FindByEmail" THEN FailedLookup
                    ELSE UserFindByEmail(us, input.Email)
        u1 == IF changesEmail THEN [user EXCEPT !.email = input.Email] ELSE user
        u2 == IF input.FirstName # "" THEN [u1 EXCEPT !.firstName = input.FirstName] ELSE u1
        u3 == IF input.LastName # "" THEN [u2 EXCEPT !.lastName = input.LastName] ELSE u2
        u4 == [u3 EXCEPT !.password = UpdatedPassword(user, input.Password)]
        upd == IF fault = "Update" THEN [err |-> ErrStore, store |-> us]
               ELSE UserRepoUpdate(us, u4)
        c1 == <<Call("FindByID", f.err)>>
        c2 == IF changesEmail /\ isValidEmail(input.Email)
              THEN c1 \o <<Call("FindByEmail", existing.err)>> ELSE c1
        c3 == c2 \o <<Call("Update", upd.err)>>
    IN  IF ~uid.ok THEN FaultOutcome(ErrUserIDFormat, store, us, << >>)
        ELSE IF f.err # NoError THEN FaultOutcome(f.err, store, us, c1)
        ELSE IF changesEmail /\ ~isValidEmail(input.Email)
        THEN FaultOutcome(ErrEmailFormat, store, us, c1)
        ELSE IF changesEmail /\ existing.err = NoError /\ existing.user.id # user.id
        THEN FaultOutcome(ErrEmailInUse, store, us, c2)
        ELSE IF input.Password # Empty /\ ~UpdatePasswordValid(input.Password)
        THEN FaultOutcome(ErrPasswordLength, store, us, c2)
        ELSE FaultOutcome(upd.err, store, upd.store, c3)

\* CreateTask: userRepo.FindByID of the creator, taskRepo.Create
CreateTaskFaults == {"FindByID", "Create"}

CreateTaskWithFault(store, us, input, newID, t, fault) ==
    LET creator == ObjectIDFromHex(input.CreatedBy)
        f == IF fault = "FindByID" THEN FailedLookup ELSE UserFindByID(us, creator.id)
        c == IF fault = "Create" THEN [err |-> ErrStore, store |-> store]
             ELSE RepoCreate(store, NewTask(input, creator.id), newID, t)
        c1 == <<Call("FindByID", f.err)>>
        c2 == c1 \o <<Call("Create", c.err)>>
    IN  IF input.Title = "" THEN FaultOutcome(ErrInvalidInput, store, us, << >>)
        ELSE IF ~CreatePriorityValid(input.Priority)
        THEN FaultOutcome(ErrPriorityRange, store, us, << >>)
        ELSE IF ~creator.ok THEN FaultOutcome(ErrCreatorIDFormat, store, us, << >>)
        ELSE IF f.err = ErrNotFound THEN FaultOutcome(ErrCreatorNotFound, store, us, c1)
        ELSE IF f.err # NoError THEN FaultOutcome(f.err, store, us, c1)
        ELSE FaultOutcome(c.err, c.store, us, c2)

\* State machine: the three operations, one call at a time, each with at
\* most one failing repository call
FaultRegisterUserInputs ==
    [Username : {Alice, Carol}, Email : {EmailA, EmailC}, Password : {Password1},
     FirstName : {""}, LastName : {""}]

FaultUpdateUserInputs ==
    [ID : {"a1"}, Email : {Empty, EmailB, EmailC}, FirstName : {""}, LastName : {""},
     Password : {Empty, Password2}]

FaultCreateTaskInputs ==
    [Title : {"", "a"}, Description : {""}, Priority : {MinPriority}, DueDate : {ZeroTime},
     CreatedBy : {"a1", "a3"}]

Faulted(op, input, fault, o) ==
    [op |-> op, input |-> input, fault |-> fault, err |-> o.err, calls |-> o.calls,
     before |-> tasks, usersBefore |-> users]

FaultRegisterUser ==
    /\ last = Idle
    /\ \E input \in FaultRegisterUserInputs, fault \in RegisterUserFaults \cup {NoFault},
          newID \in UserIDs \ issued :
          LET o == RegisterUserWithFault(tasks, users, input, newID, fault) IN
          /\ users' = o.users
          /\ issued' = IF o.err = NoError THEN issued \cup {newID} ELSE issued
          /\ last' = Faulted("RegisterUser", input, fault, o)
    /\ UNCHANGED <<tasks, procs, clock, held, jwtExpiry>>

FaultUpdateUser ==
    /\ last = Idle
    /\ \E input \in FaultUpdateUserInputs, fault \in UpdateUserFaults \cup {NoFault} :
          LET o == UpdateUserWithFault(tasks, users, input, fault) IN
          /\ users' = o.users
          /\ last' = Faulted("UpdateUser", input, fault, o)
    /\ UNCHANGED <<tasks, issued, procs, clock, held, jwtExpiry>>

FaultCreateTask ==
    /\ last = Idle
    /\ \E input \in FaultCreateTaskInputs, fault \in CreateTaskFaults \cup {NoFault},
          newID \in TaskIDs \ issued :
          LET o == CreateTaskWithFault(tasks, users, input, newID, clock, fault) IN
          /\ tasks' = o.tasks
          /\ issued' = IF o.err = NoError THEN issued \cup {newID} ELSE issued
          /\ last' = Faulted("CreateTask", input, fault, o)
    /\ UNCHANGED <<users, procs, clock, held, jwtExpiry>>

NextFault ==
    \/ FaultRegisterUser
    \/ FaultUpdateUser
    \/ FaultCreateTask
    \/ Return

SpecFault == InitApi /\ [][NextFault]_vars

-----------------------------------------------------------------------------
(* Properties of single calls.  `last` is the call that has just returned: *)
(* its input, its error, the task it returned and the store before it.     *)

Called(op) == last.op = op

WellFormed(s) == s # MalformedHex

\* the legal status changes: current -> allowed next
TransitionTable ==
    {<<"pending", "in_progress">>, <<"pending", "completed">>,
     <<"in_progress", "completed">>, <<"completed", "in_progress">>}

\* the task the call was about was stored when the call started
TargetStored(id) == id \in DOMAIN last.before

\* the updater is the creator of the task or the user it is assigned to
IsCreatorOrAssignee(task, userID) ==
    \/ userID = task.createdBy
    \/ task.assignedTo # NilObjectID /\ userID = task.assignedTo

\* C1: an UpdateTask of a stored task by its creator or its assignee that
\* supplies a status succeeds only if (current status, supplied status) is in
\* the transition table; every other pair, the same status and
\* completed -> pending included, is rejected, with the invalid-transition
\* error whenever the call gets as far as the status (its priority is 0 or in 1..5).
C1_StatusTransitionTable ==
    (/\ Called("UpdateTask")
     /\ TargetStored(last.input.ID)
     /\ last.input.Status # ""
     /\ IsCreatorOrAssignee(last.before[last.input.ID], last.input.UpdatedBy))
    => LET current == last.before[last.input.ID].status
           pair == <<current, last.input.Status>>
       IN  /\ last.err = NoError => pair \in TransitionTable
           /\ pair \in TransitionTable => last.err = NoError \/ last.err = ErrPriorityRange
           /\ pair \notin TransitionTable =>
                 /\ last.err # NoError
                 /\ tasks = last.before
                 /\ last.input.Priority \in {0} \cup (MinPriority..MaxPriority)
                       => last.err = ErrInvalidTransition

\* C1 witness: the assignee's completed -> pending was rejected as an invalid transition
C1_Witness ==
    /\ Called("UpdateTask")
    /\ TargetStored(last.input.ID)
    /\ last.before[last.input.ID].status = "completed"
    /\ last.before[last.input.ID].assignedTo = last.input.UpdatedBy
    /\ last.input.Status = "pending"
    /\ last.err = ErrInvalidTransition

\* C2: UpdateTask changes a stored task only when the updater is its creator
\* or the user it is assigned to: after a call with any other updater id, on
\* an assigned and on a never-assigned task alike, the stored task is as it
\* was (the call having failed with Unauthorized).
C2_UpdateOnlyByCreatorOrAssignee ==
    (/\ Called("UpdateTask")
     /\ TargetStored(last.input.ID)
     /\ ~IsCreatorOrAssignee(last.before[last.input.ID], last.input.UpdatedBy))
    => tasks = last.before

\* C3: DeleteTask removes the stored task exactly when the requester is its
\* creator; any other requester, the assignee included, gets Unauthorized and
\* the task stays; deleting an absent id fails with NotFound; after a
\* successful delete GetTaskByID of that id fails with NotFound.
C3_DeleteOnlyByCreator ==
    (/\ Called("DeleteTask")
     /\ WellFormed(last.input.id)
     /\ WellFormed(last.input.userID))
    => LET id == last.input.id IN
       IF TargetStored(id)
       THEN IF last.input.userID = last.before[id].createdBy
            THEN /\ last.err = NoError
                 /\ id \notin DOMAIN tasks
                 /\ GetTaskByIDCall(tasks, id).err = ErrNotFound
            ELSE /\ last.err = ErrUnauthorized
                 /\ tasks = last.before
       ELSE /\ last.err = ErrNotFound
            /\ tasks = last.before

\* C3 witness: the assignee of a task asked to delete it and was refused
C3_Witness ==
    /\ Called("DeleteTask")
    /\ TargetStored(last.input.id)
    /\ last.before[last.input.id].assignedTo = last.input.userID
    /\ last.input.userID # last.before[last.input.id].createdBy
    /\ last.err = ErrUnauthorized
    /\ last.input.id \in DOMAIN tasks

\* C4: AssignTask on a stored task succeeds only when the assigner is the
\* creator and the assignee is an existing user; another assigner gets
\* Unauthorized, the creator naming a user that does not exist gets the
\* assignee-not-found error, and in both cases the stored task is unchanged.
C4_AssignOnlyByCreatorToExistingUser ==
    (/\ Called("AssignTask")
     /\ TargetStored(last.input.TaskID)
     /\ WellFormed(last.input.AssigneeID)
     /\ WellFormed(last.input.AssignedBy))
    => LET t == last.before[last.input.TaskID] IN
       /\ last.err = NoError =>
             last.input.AssignedBy = t.createdBy /\ last.input.AssigneeID \in DOMAIN users
       /\ last.input.AssignedBy # t.createdBy =>
             last.err = ErrUnauthorized /\ tasks = last.before
       /\ (last.input.AssignedBy = t.createdBy /\ last.input.AssigneeID \notin DOMAIN users) =>
             last.err = ErrAssigneeNotFound /\ tasks = last.before

\* C4 witness: the creator named an assignee that no user document has
C4_Witness ==
    /\ Called("AssignTask")
    /\ TargetStored(last.input.TaskID)
    /\ last.input.AssignedBy = last.before[last.input.TaskID].createdBy
    /\ last.input.AssigneeID = "a3"
    /\ last.err = ErrAssigneeNotFound

\* C5: a successful AssignTask stores (and returns) the task with assigned-to
\* the given assignee, with status in_progress if it was pending, and with
\* the status it had if that was in_progress or completed.
C5_AssignSetsAssigneeAndAdvancesPending ==
    (Called("AssignTask") /\ last.err = NoError)
    => LET id == last.input.TaskID
           was == last.before[id].status
           now == IF was = "pending" THEN "in_progress" ELSE was
       IN  /\ tasks[id].assignedTo = last.input.AssigneeID
           /\ tasks[id].status = now
           /\ last.task.assignedTo = last.input.AssigneeID
           /\ last.task.status = now

\* C5 witness: a completed task was assigned and stayed completed
C5_Witness ==
    /\ Called("AssignTask")
    /\ last.err = NoError
    /\ last.before[last.input.TaskID].status = "completed"
    /\ tasks[last.input.TaskID].status = "completed"
    /\ tasks[last.input.TaskID].assignedTo = last.input.AssigneeID

\* C6: the task a successful CreateTask returns is the task it stored under a
\* new id, with status pending, no assignee, the given creator and the
\* title, description, priority and due date supplied.
C6_CreatedTaskIsPendingAndAsSupplied ==
    (Called("CreateTask") /\ last.err = NoError)
    => /\ last.task.id \notin DOMAIN last.before
       /\ last.task.id \in DOMAIN tasks
       /\ tasks[last.task.id] = last.task
       /\ last.task.status = "pending"
       /\ last.task.assignedTo = NilObjectID
       /\ last.task.createdBy = last.input.CreatedBy
       /\ last.task.title = last.input.Title
       /\ last.task.description = last.input.Description
       /\ last.task.priority = last.input.Priority
       /\ last.task.dueDate = last.input.DueDate

\* C6 witness: a task with a description and a due date was created
C6_Witness ==
    /\ Called("CreateTask")
    /\ last.err = NoError
    /\ last.input.Description = "x"
    /\ last.input.DueDate # ZeroTime
    /\ last.task.id \in DOMAIN tasks

\* C7: every stored task has a priority in 1..5.
C7_StoredPriorityInRange ==
    \A id \in DOMAIN tasks : tasks[id].priority \in 1..5

\* C7 witness: an UpdateTask has changed the stored priority of a task
C7_Witness ==
    /\ Called("UpdateTask")
    /\ last.err = NoError
    /\ last.input.Priority = 5
    /\ last.before[last.input.ID].priority = 1
    /\ tasks[last.input.ID].priority = 5

\* C8: for every priority outside 1..5 (zero, negative, above 5), CreateTask
\* and UpdateTask with that priority are rejected and the error is the
\* InvalidInput domain error.
C8_PriorityOutOfRangeIsInvalidInput ==
    /\ (/\ Called("CreateTask")
        /\ last.input.Priority \notin 1..5)
       => last.err = ErrInvalidInput
    /\ (/\ Called("UpdateTask")
        /\ TargetStored(last.input.ID)
        /\ last.input.Priority \notin 1..5)
       => last.err = ErrInvalidInput

\* C9: CreateTask with an empty title fails with InvalidInput; CreateTask
\* whose created-by is not an existing user fails, with the creator-not-found
\* error when the id is well formed and title and priority are valid; in
\* both cases no task is added to the store.
C9_CreateRejectsEmptyTitleAndUnknownCreator ==
    Called("CreateTask")
    => /\ last.input.Title = "" =>
             last.err = ErrInvalidInput /\ tasks = last.before
       /\ last.input.CreatedBy \notin DOMAIN users =>
             /\ last.err # NoError
             /\ tasks = last.before
             /\ (/\ last.input.Title # ""
                 /\ last.input.Priority \in 1..5
                 /\ WellFormed(last.input.CreatedBy))
                => last.err = ErrCreatorNotFound

\* C9 witness: a valid task was refused because its creator does not exist
C9_Witness ==
    /\ Called("CreateTask")
    /\ last.input.Title = "a"
    /\ last.input.CreatedBy = "a3"
    /\ last.err = ErrCreatorNotFound
    /\ tasks = last.before

\* C10: in every execution, also when UpdateTask and AssignTask calls on the
\* same task interleave between their read and their write, every change of
\* a stored status to a different value is a transition of the table.
C10_StatusChangesFollowTable ==
    [][\A id \in DOMAIN tasks \cap DOMAIN tasks' :
          tasks'[id].status # tasks[id].status
             => <<tasks[id].status, tasks'[id].status>> \in TransitionTable]_vars

\* C11: the stored assigned-to of a task changes only by an AssignTask: no
\* UpdateTask, alone or interleaved with an AssignTask on the same task,
\* changes it.  Stated on the step in which an UpdateTask writes.
C11_UpdateKeepsAssignee ==
    [][\A p \in Processes :
          (procs[p].pc = "update" /\ procs'[p].pc = "idle")
          => \A id \in DOMAIN tasks \cap DOMAIN tasks' :
                tasks'[id].assignedTo = tasks[id].assignedTo]_vars

\* C12: whatever UpdateTask and AssignTask calls run on a task, one after the
\* other or interleaved, its stored created-by is the creator given to the
\* CreateTask that created it.
C12_CreatedByIsTheCreator ==
    \A id \in DOMAIN tasks :
       (Called("CreateTask") /\ last.err = NoError /\ last.task.id = id)
       => tasks[id].createdBy = last.input.CreatedBy

\* C12 witness: a task created by a1 has been retitled by an UpdateTask and
\* assigned to a2 by an AssignTask, and is still stored
C12_Witness ==
    /\ Called("CreateTask") /\ last.err = NoError /\ last.input.CreatedBy = "a1"
    /\ last.task.id \in DOMAIN tasks
    /\ tasks[last.task.id].title = "b"
    /\ tasks[last.task.id].assignedTo = "a2"

\* the stored task a successful UpdateTask leaves, by the rule "a supplied
\* value that is not empty / zero overwrites, everything else stays"
UpdatedAsSupplied(was, input) ==
    [was EXCEPT !.title = IF input.Title # "" THEN input.Title ELSE @,
                !.description = IF input.Description # "" THEN input.Description ELSE @,
                !.status = IF input.Status # "" THEN input.Status ELSE @,
                !.priority = IF input.Priority # 0 THEN input.Priority ELSE @,
                !.dueDate = IF input.DueDate # ZeroTime THEN input.DueDate ELSE @]

\* C13 as stated: a successful UpdateTask overwrites exactly the fields among
\* title, description, status, priority and due date whose supplied value is
\* not empty / zero, and leaves every other field of the task as it was.
C13_UpdateLeavesEveryOtherField ==
    (Called("UpdateTask") /\ last.err = NoError)
    => tasks[last.input.ID] = UpdatedAsSupplied(last.before[last.input.ID], last.input)

\* C13 amended: a successful UpdateTask overwrites exactly the fields among
\* title, description, status, priority and due date whose supplied value is
\* not empty / zero, and leaves every other field of the task but its
\* updated-at time as it was.
C13_UpdateLeavesEveryOtherFieldButUpdatedAt ==
    (Called("UpdateTask") /\ last.err = NoError)
    => LET is == tasks[last.input.ID]
           was == last.before[last.input.ID]
       IN  [is EXCEPT !.updatedAt = was.updatedAt] = UpdatedAsSupplied(was, last.input)

\* C13 witness: an UpdateTask that supplied a title and no description
\* succeeded on a task with a description, at a later clock reading than
\* the task's last write
C13_Witness ==
    /\ Called("UpdateTask") /\ last.err = NoError
    /\ last.input.Title = "b" /\ last.input.Description = ""
    /\ last.before[last.input.ID].description = "x"
    /\ last.before[last.input.ID].assignedTo = "a2"
    /\ tasks[last.input.ID].updatedAt # last.before[last.input.ID].updatedAt

\* C14: in every reachable state, whatever RegisterUser and UpdateUser calls
\* have run and however they interleaved, no two stored users have the same
\* email and no two have the same username; so of two concurrent
\* registrations with the same email or the same username at most one is stored.
C14_UniqueEmailAndUsername ==
    \A i \in DOMAIN users : \A j \in DOMAIN users :
       i # j => users[i].email # users[j].email /\ users[i].username # users[j].username

\* C14 witness: a registration that passed every lookup lost the race: its
\* insert was refused because a user stored meanwhile holds its email
C14_Witness ==
    /\ Called("RegisterUser") /\ last.err = ErrDuplicateKey
    /\ last.user.id # NilObjectID
    /\ \E id \in DOMAIN users : users[id].email = last.user.email

\* some user stored before the call holds the email
EmailHeld(email) == \E id \in DOMAIN last.before : last.before[id].email = email

\* some user stored before the call holds the username
UsernameHeld(username) ==
    \E id \in DOMAIN last.before : last.before[id].username = username

\* C15: a RegisterUser whose email an existing user holds fails, also when
\* nobody holds its username: it stores no new user and leaves the existing
\* users unchanged, and (its username and password being long enough) its
\* error is the duplicate-email error.
C15_RegisterRejectsHeldEmail ==
    (Called("RegisterUser") /\ EmailHeld(last.input.Email))
    => /\ last.err # NoError
       /\ users = last.before
       /\ validateUserInput(last.input) = NoError => last.err = ErrEmailRegistered

\* C15 witness: a registration with a held email and a username nobody
\* holds was refused with the duplicate-email error
C15_Witness ==
    /\ Called("RegisterUser") /\ EmailHeld(last.input.Email)
    /\ ~UsernameHeld(last.input.Username)
    /\ last.err = ErrEmailRegistered

\* C16: for a registered user whose password is the one it registered with,
\* ValidateCredentials with login equal to its username or to its email
\* succeeds with that password and returns that user, and fails with the
\* invalid-credentials error with any other password.
C16_RegisteredCredentialsValidate ==
    Called("ValidateCredentials")
    => \A id \in DOMAIN last.before :
          LET u == last.before[id] IN
          last.input.Login \in {u.username, u.email}
          => IF verifyPassword(u.password, last.input.Password)
             THEN last.err = NoError /\ last.user = u
             ELSE last.err = ErrInvalidCredentials

\* the login and the password are those of no stored user: either no user
\* has the login as its username or email, or the one that has it has
\* another password
NoSuchCredentials(us, login, password) ==
    ~\E id \in DOMAIN us :
        /\ login \in {us[id].username, us[id].email}
        /\ verifyPassword(us[id].password, password)

\* C17: ValidateCredentials, and Login on the same input, return one and the
\* same outcome, the invalid-credentials error and no user or token, when the
\* login matches no user and when it matches a user whose password is another.
C17_UnknownLoginAndWrongPasswordAlike ==
    (Called("ValidateCredentials")
       /\ NoSuchCredentials(last.before, last.input.Login, last.input.Password))
    => /\ last.err = ErrInvalidCredentials
       /\ last.user = NoUser
       /\ LoginCall(last.before, last.input, clock, jwtExpiry).err = ErrInvalidCredentials
       /\ LoginCall(last.before, last.input, clock, jwtExpiry).out = NoOutput

\* C17 witness: the invalid-credentials error was returned for a login that
\* is the username or email of no stored user, with a password that a
\* stored user has
C17_Witness ==
    /\ Called("ValidateCredentials")
    /\ last.err = ErrInvalidCredentials
    /\ \A id \in DOMAIN last.before :
          last.input.Login \notin {last.before[id].username, last.before[id].email}
    /\ \E id \in DOMAIN last.before :
          verifyPassword(last.before[id].password, last.input.Password)

\* the credentials that validate on a users collection
Validating(us) ==
    {c \in CredentialsInputs : ValidateCredentialsCall(us, c.Login, c.Password).err = NoError}

\* a successful UpdateUser that supplied a password other than the old one:
\* the new password validates with the user's email and the old one does not
NewPasswordReplacesOld ==
    (Called("UpdateUser") /\ last.err = NoError /\ last.input.Password # Empty
       /\ ~verifyPassword(last.before[last.input.ID].password, last.input.Password))
    => LET email == users[last.input.ID].email IN
       /\ ValidateCredentialsCall(users, email, last.input.Password).err = NoError
       /\ \A old \in Passwords :
             verifyPassword(last.before[last.input.ID].password, old)
             => ValidateCredentialsCall(users, email, old).err = ErrInvalidCredentials

\* an UpdateUser that supplied a password shorter than 6 characters failed
\* and left the users collection as it was
ShortPasswordRejected ==
    (Called("UpdateUser") /\ last.input.Password # Empty
       /\ Len(last.input.Password) < MinPasswordLen)
    => last.err # NoError /\ users = last.before

\* C18 as stated: after a successful UpdateUser that supplies no password the
\* credentials that validated before the call still validate; after one that
\* supplies a new password of at least 6 characters the new password
\* validates and the old one fails; a supplied password shorter than 6
\* characters is rejected and the stored user is unchanged.
C18_UpdateUserPassword ==
    /\ (Called("UpdateUser") /\ last.err = NoError /\ last.input.Password = Empty)
       => Validating(last.before) \subseteq Validating(users)
    /\ NewPasswordReplacesOld
    /\ ShortPasswordRejected

\* C18 amended: as C18, but of the credentials that validated before a
\* successful UpdateUser without password, those whose login is the email
\* that the call replaced need not validate after it.
C18_UpdateUserPasswordButReplacedEmail ==
    /\ (Called("UpdateUser") /\ last.err = NoError /\ last.input.Password = Empty)
       => LET was == last.before[last.input.ID].email
              replaced == users[last.input.ID].email # was
          IN  \A c \in Validating(last.before) :
                 c \in Validating(users) \/ (replaced /\ c.Login = was)
    /\ NewPasswordReplacesOld
    /\ ShortPasswordRejected

\* C18 witness: an UpdateUser replaced the password by another one, which
\* now validates with the user's email
C18_Witness ==
    /\ Called("UpdateUser") /\ last.err = NoError /\ last.input.Password # Empty
    /\ ~verifyPassword(last.before[last.input.ID].password, last.input.Password)
    /\ ValidateCredentialsCall(users, users[last.input.ID].email,
                               last.input.Password).err = NoError

\* the token presented to the call is one that Login or RefreshToken issued
IssuedToken == last.input \in {h.AccessToken : h \in last.before}

\* C19: a token issued by Login or RefreshToken, e being the expiry it
\* carries, validates (ValidateToken returns the user id it carries) at
\* every time before e and fails at every time after e, whatever was done in
\* between (a refresh of it, a password change, the deletion of the user);
\* a token issued with ttl 0 fails a second after it was issued.
C19_TokenValidUntilExpiry ==
    (Called("ValidateToken") /\ IssuedToken)
    => /\ last.at < last.input.exp
          => last.err = NoError /\ last.userID = last.input.user_id
       /\ last.at > last.input.exp => last.err # NoError
       /\ (last.input.exp = last.input.iat
             /\ last.at >= last.input.iat + TicksPerSecond) => last.err # NoError

\* C19 witness: a token validated after the user it was issued to was deleted
C19_Witness ==
    /\ Called("ValidateToken") /\ IssuedToken
    /\ last.err = NoError
    /\ last.userID \notin DOMAIN users

\* C20: two token issuances for the same user, whatever the time between
\* them, also within one second, yield two different token values.  Stated
\* on the second issuance: its token is none of the tokens held for that user.
C20_TwoIssuancesDiffer ==
    ((Called("Login") \/ Called("RefreshToken")) /\ last.err = NoError)
    => \A h \in last.before :
          h.UserID = last.out.UserID => h.AccessToken # last.out.AccessToken

\* C21: RefreshToken issues a new token only if the old token validates and
\* the user id it carries is that of a stored user: with an old token that
\* does not validate (forged, malformed or expired) it fails without a call
\* on the user repository, with a still valid token of a deleted user it
\* fails with not-found, and on success the expiry returned with the new
\* token is the time of the refresh plus jwtExpiry (the exp the token
\* carries being that time in whole seconds).
C21_RefreshOnlyForValidTokenOfStoredUser ==
    Called("RefreshToken")
    => LET v == ValidateTokenCall(last.input, last.at) IN
       /\ v.err # NoError
          => last.err # NoError /\ last.out = NoOutput /\ last.calls = << >>
       /\ (v.err = NoError /\ v.userID \notin DOMAIN users)
          => last.err = ErrNotFound /\ last.out = NoOutput
       /\ last.err = NoError
          => /\ v.err = NoError
             /\ v.userID \in DOMAIN users
             /\ last.out.UserID = v.userID
             /\ last.out.ExpiresAt = last.at + jwtExpiry
             /\ last.out.AccessToken.exp = NewNumericDate(last.at + jwtExpiry)

\* C21 witness: the refresh of a token that still validates failed with
\* not-found because its user has been deleted
C21_Witness ==
    /\ Called("RefreshToken")
    /\ ValidateTokenCall(last.input, last.at).err = NoError
    /\ last.input.user_id \notin DOMAIN users
    /\ last.err = ErrNotFound

\* the request answered last carried a Bearer token that validated when the
\* request was made
BearerValidated ==
    /\ Len(last.request.header) = 2
    /\ last.request.header[1] = "Bearer"
    /\ ValidateTokenCall(last.request.header[2], last.at).err = NoError

ActingOps == {"CreateTask", "UpdateTask", "DeleteTask", "AssignTask"}

\* C22: on REST, a request on a route other than register (login,
\* refresh-token and health call no task or user operation) reaches a use
\* case operation only if the Auth middleware validated its Bearer token;
\* otherwise it is answered 401 and both stores are as before; and the
\* acting user id passed to CreateTask, UpdateTask, DeleteTask and
\* AssignTask is the user id of that token, whatever the body carries.
C22_RestCoreOnlyBehindAuth ==
    (last # Idle /\ last.op # "Register" /\ last.transport = "REST")
    => /\ last.core # NoCore => BearerValidated
       /\ ~BearerValidated
          => /\ last.status = StatusUnauthorized
             /\ last.core = NoCore
             /\ tasks = last.before
             /\ users = last.usersBefore
       /\ last.core \in ActingOps => last.actor = last.request.header[2].user_id

\* C22 witness: an update under the token of a2, with a body that names a1,
\* was carried out as a2
C22_Witness ==
    /\ last # Idle
    /\ last.transport = "REST"
    /\ last.op = "UpdateTask"
    /\ BearerValidated
    /\ last.request.header[2].user_id = "a2"
    /\ last.request.body.UserID = "a1"
    /\ last.core = "UpdateTask"
    /\ last.actor = "a2"
    /\ last.err = NoError

\* the gRPC request answered last carried, in its authorization metadata, a
\* token that validated when the request was made
MetadataValidated ==
    /\ Len(last.request.authorization) >= 1
    /\ ValidateTokenCall(last.request.authorization[1], last.at).err = NoError

\* C23: on gRPC, CreateTask, UpdateTask, DeleteTask and AssignTask call the
\* use case only after the token in the request's authorization metadata
\* has validated; a request without a valid token changes no task.
C23_GrpcCoreOnlyWithValidToken ==
    (last # Idle /\ last.transport = "gRPC" /\ ~MetadataValidated)
    => /\ last.core = NoCore
       /\ tasks = last.before

\* C24: a CreateTask or UpdateTask request that the use case rejects because
\* the priority is outside 1..5 is answered 400 on REST and
\* INVALID_ARGUMENT on gRPC.
C24_PriorityRejectionIsInvalidInput ==
    (last # Idle /\ last.core \in {"CreateTask", "UpdateTask"} /\ last.err = ErrPriorityRange)
    => last.status = IF last.transport = "REST" THEN StatusBadRequest
                     ELSE CodeInvalidArgument

\* C25: a REST registration rejected because the username or the email
\* already exists is answered 409.
C25_DuplicateRegistrationIsConflict ==
    (last # Idle /\ last.op = "Register"
        /\ last.err \in {ErrEmailRegistered, ErrUsernameTaken, ErrDuplicateKey})
    => last.status = StatusConflict

\* the tasks a listing returned, and whether it returned each of them once
Listed == {last.result[i] : i \in 1..Len(last.result)}

\* C26: ListTasks with a status filter s returns exactly the stored tasks
\* whose status is s, each once; ListTasks with no filter (no input, or the
\* empty status) returns every stored task, each once; neither changes the
\* store.
C26_ListTasksReturnsExactlyTheMatching ==
    Called("ListTasks")
    => /\ tasks = last.before
       /\ last.err = NoError
       /\ Len(last.result) = Cardinality(Listed)
       /\ Listed = IF ~last.input.nil /\ last.input.Status # ""
                   THEN {tasks[i] : i \in {j \in DOMAIN tasks :
                                              tasks[j].status = last.input.Status}}
                   ELSE {tasks[i] : i \in DOMAIN tasks}

\* C26 witness: with a pending and an advanced task stored, the listing
\* filtered by pending returned the pending one alone
C26_Witness ==
    /\ Called("ListTasks")
    /\ ~last.input.nil
    /\ last.input.Status = TaskStatusPending
    /\ Cardinality(DOMAIN tasks) = 2
    /\ Len(last.result) = 1
    /\ last.result[1].status = TaskStatusPending

\* title, description, status, priority and due date of a task
Content(task) ==
    <<task.title, task.description, task.status, task.priority, task.dueDate>>

\* C27: when two UpdateTask calls on a task both read it before either
\* writes, the task stored after both equals, in title, description, status,
\* priority and due date, the task written by the call that wrote last:
\* what that call read, overwritten by what it supplied.  A change the
\* first writer made is kept only where the last writer supplied the same
\* value.  Stated for every UpdateTask whose write succeeded, whatever was
\* written between its read and its write.
C27_LastWriterWins ==
    (Called("UpdateTask") /\ last.err = NoError)
    => /\ last.id \in DOMAIN tasks
       /\ Content(tasks[last.id]) = Content(last.written)
       /\ Content(tasks[last.id]) = Content(UpdatedAsSupplied(last.read, last.input))

\* C27 witness: the call that wrote last had read the task before another
\* UpdateTask retitled it, supplied no title itself, and the title stored is
\* again the one it read
C27_Witness ==
    /\ Called("UpdateTask") /\ last.err = NoError
    /\ last.before[last.id].title # last.read.title
    /\ last.input.Title = ""
    /\ last.input.Priority = MaxPriority
    /\ tasks[last.id].title = last.read.title
    /\ tasks[last.id].priority = MaxPriority

\* the ids of the tasks that were created and are stored no more
Deleted(store) == (issued \cap TaskIDs) \ DOMAIN store

\* C30: once DeleteTask has removed a task it never reappears in the store:
\* an UpdateTask or AssignTask that read the task before the delete and
\* writes after it fails with NotFound and stores nothing, and every later
\* GetTaskByID, UpdateTask, AssignTask and DeleteTask for its id fails with
\* NotFound.
C30_DeletedTaskStaysDeleted ==
    /\ [](\A id \in Deleted(tasks) :
             (last.op \in {"GetTaskByID", "UpdateTask", "AssignTask", "DeleteTask"}
                 /\ last.id = id /\ id \notin DOMAIN last.before)
             => last.err = ErrNotFound /\ tasks = last.before)
    /\ [][\A id \in Deleted(tasks) : id \notin DOMAIN tasks']_vars

\* C30 witness: an UpdateTask that had read the task gave its copy to the
\* repository after the task was deleted, got NotFound, and the store is
\* empty
C30_Witness ==
    /\ Called("UpdateTask")
    /\ last.written # NoTask
    /\ last.id \notin DOMAIN last.before
    /\ last.err = ErrNotFound
    /\ tasks = << >>

\* C29: an UpdateTask call that returns an error (task not found, priority
\* out of range, unauthorized updater, illegal status transition, malformed
\* id) leaves the store as it was, also when the call supplied valid new
\* values for other fields.
C29_FailedUpdateChangesNothing ==
    (Called("UpdateTask") /\ last.err # NoError) => tasks = last.before

\* C29 witness: an update by the creator that supplied a new title and an
\* illegal status was rejected, and the stored title is the old one
C29_Witness ==
    /\ Called("UpdateTask")
    /\ last.err = ErrInvalidTransition
    /\ last.input.Title = "b"
    /\ last.input.ID \in DOMAIN tasks
    /\ tasks[last.input.ID].title = "a"
    /\ tasks = last.before

\* C28: when a repository call made by an operation fails with an error
\* other than not-found, the operation returns an error at once: the failed
\* call is the last repository call it makes, and nothing is written.
C28_StoreErrorReturnsAtOnce ==
    (last # Idle)
    => \A i \in 1..Len(last.calls) :
          last.calls[i].err = ErrStore
          => /\ i = Len(last.calls)
             /\ last.err # NoError
             /\ tasks = last.before
             /\ users = last.usersBefore

====
